---- MODULE Spec2Model ----
(***************************************************************************)
(* A model of the Loop runtime (a single-threaded io_uring executor).      *)
(*                                                                         *)
(*   Spec        the task state word (src/task/state.rs) driven by the     *)
(*               owner thread that runs the task, the wakers that notify   *)
(*               it and the join handle, at the granularity of one atomic  *)
(*               memory operation per step.                                *)
(*   SpecNotify  Spec with waker holders that also call                    *)
(*               transition_to_notified_without_submit.                    *)
(*   SpecDriver  the io_uring driver (src/driver): the submission queue,   *)
(*               the kernel, the completion queue, the slab of operation   *)
(*               lifecycles and the Op handles, used by code that may      *)
(*               submit, poll, drop, flush and park in any order.          *)
(*   SpecCancel  SpecDriver with callers that also make an OpCanceller of  *)
(*               an Op and use it.                                         *)
(*   FairDriver  SpecDriver with a kernel that completes what it was       *)
(*               handed and a caller that keeps flushing and ticking.      *)
(*   SpecRuntime Runtime::block_on (src/runtime/runtime.rs): the run       *)
(*               queue, the top-level future and the spawned tasks, which  *)
(*               use the driver from inside their polls.                   *)
(*   SpecSpin    block_on with a task that re-queues itself on every run,  *)
(*               under fairness of the runtime thread.                     *)
(*   SpecCalls   the submit side of the driver, call by call, with what    *)
(*               each call returns and what the kernel answered.           *)
(*   SpecPark    Driver::park_timeout on kernels with and without          *)
(*               extended wait arguments.                                  *)
(*   SpecOpen    the open options (src/fs/Opener.rs), openat, and the      *)
(*               MaybeFd a completion hands to its owner.                  *)
(***************************************************************************)
EXTENDS Integers, Sequences, FiniteSets, Bags, TLC

(***************************************************************************)
(* Bounds of the model.                                                    *)
(***************************************************************************)
\* number of waker slots (concurrent waker clones of the one task)
MaxWakers == 2
\* number of operations submitted in one run
MaxOps == 2
\* number of slab slots in use at a time
MaxSlots == 2
\* capacity of the submission queue (the ring's `entries`)
SqCap == 2
\* number of tasks spawned in one run of block_on
MaxTasks == 2

Ops == 1..MaxOps
Slots == 0..(MaxSlots - 1)

(***************************************************************************)
(* state.rs: the bit layout of the state word.                             *)
(***************************************************************************)
RUNNING == 1
COMPLETE == 2
NOTIFIED == 4
JOIN_INTEREST == 8
JOIN_WAKER == 16
REF_ONE == 32
\* (REF_ONE * 2) | JOIN_INTEREST | NOTIFIED
\* (a variant without NOTIFIED: a task that starts as not scheduled)
INITIAL_STATE_unnotified == (REF_ONE * 2) + JOIN_INTEREST
INITIAL_STATE == (REF_ONE * 2) + JOIN_INTEREST + NOTIFIED

\* The word is an AtomicUsize.  TLC's integers are 32 bits wide, so the model
\* keeps the low 30 bits of the word: the five flags and a 25 bit ref count.
\* Arithmetic on the word wraps at this width, as fetch_add / fetch_sub do.
UsizeModulus == 2 ^ 30

Has(s, bit) == (s \div bit) % 2 = 1
SetBit(s, bit) == IF Has(s, bit) THEN s ELSE s + bit
ClearBit(s, bit) == IF Has(s, bit) THEN s - bit ELSE s

\* Snapshot accessors
is_running(s) == Has(s, RUNNING)
is_complete(s) == Has(s, COMPLETE)
is_notified(s) == Has(s, NOTIFIED)
is_idle(s) == ~Has(s, RUNNING) /\ ~Has(s, COMPLETE)
is_join_interested(s) == Has(s, JOIN_INTEREST)
has_join_waker(s) == Has(s, JOIN_WAKER)
ref_count(s) == s \div REF_ONE
flag_bits(s) == s % REF_ONE

(***************************************************************************)
(* state.rs: the closures handed to fetch_update_action / fetch_update.    *)
(* Each is split in the value it stores (.._next, None for "no store")     *)
(* and the value it returns (.._action).                                   *)
(***************************************************************************)
None == -1

\* transition_to_running: set_running, unset_notified
transition_to_running_next(curr) == ClearBit(SetBit(curr, RUNNING), NOTIFIED)
\* its two debug_assert!s
transition_to_running_assert(curr) == is_notified(curr) /\ is_idle(curr)

\* transition_to_idle: unset_running; OkNotified iff NOTIFIED is set
\* (a variant that leaves RUNNING set)
transition_to_idle_next_keeprunning(curr) == curr
transition_to_idle_next(curr) == ClearBit(curr, RUNNING)
\* (a variant that never reports OkNotified)
transition_to_idle_action_lost(curr) == "Ok"
transition_to_idle_action(curr) ==
    IF is_notified(ClearBit(curr, RUNNING)) THEN "OkNotified" ELSE "Ok"
transition_to_idle_assert(curr) == is_running(curr)

\* transition_to_complete: fetch_xor(RUNNING | COMPLETE)
\* (a variant that sets COMPLETE and leaves RUNNING: an or, not an xor)
fetch_xor_delta_or(s) == SetBit(SetBit(s, RUNNING), COMPLETE)
fetch_xor_delta(s) ==
    LET r == IF Has(s, RUNNING) THEN s - RUNNING ELSE s + RUNNING
    IN  IF Has(r, COMPLETE) THEN r - COMPLETE ELSE r + COMPLETE
transition_to_complete_assert(prev) == is_running(prev) /\ ~is_complete(prev)

\* transition_to_notified
\* (a variant that sets NOTIFIED on a complete task)
transition_to_notified_next_oncomplete(curr) ==
    IF is_running(curr) THEN SetBit(curr, NOTIFIED)
    ELSE IF is_notified(curr) THEN curr
    ELSE SetBit(curr, NOTIFIED)
\* (a variant that returns Submit without setting NOTIFIED)
transition_to_notified_next_noset(curr) ==
    IF is_running(curr) THEN SetBit(curr, NOTIFIED) ELSE curr
transition_to_notified_next(curr) ==
    IF is_running(curr) THEN SetBit(curr, NOTIFIED)
    ELSE IF is_complete(curr) \/ is_notified(curr) THEN curr
    ELSE SetBit(curr, NOTIFIED)
\* (a variant that returns Submit for a task already notified)
transition_to_notified_action_dup(curr) ==
    IF is_running(curr) THEN "DoNothing"
    ELSE IF is_complete(curr) THEN "DoNothing"
    ELSE "Submit"
\* (a variant that returns Submit for a complete task)
transition_to_notified_action_nocomplete(curr) ==
    IF is_running(curr) THEN "DoNothing"
    ELSE IF is_notified(curr) THEN "DoNothing"
    ELSE "Submit"
transition_to_notified_action(curr) ==
    IF is_running(curr) THEN "DoNothing"
    ELSE IF is_complete(curr) \/ is_notified(curr) THEN "DoNothing"
    ELSE "Submit"

\* transition_to_notified_without_submit: sets NOTIFIED on a running task;
\* stores the word back as it was when the task is complete, notified or
\* idle, and returns false only in the last case
\* (a variant that sets NOTIFIED on an idle task before it returns false)
transition_to_notified_without_submit_next_set(curr) ==
    IF is_running(curr) THEN SetBit(curr, NOTIFIED)
    ELSE IF is_complete(curr) \/ is_notified(curr) THEN curr
    ELSE SetBit(curr, NOTIFIED)
transition_to_notified_without_submit_next(curr) ==
    IF is_running(curr) THEN SetBit(curr, NOTIFIED)
    ELSE IF is_complete(curr) \/ is_notified(curr) THEN curr
    ELSE curr
transition_to_notified_without_submit_action(curr) ==
    IF is_running(curr) THEN TRUE
    ELSE IF is_complete(curr) \/ is_notified(curr) THEN TRUE
    ELSE FALSE

\* drop_join_handle_fast: Some((INITIAL_STATE - REF_ONE) & !JOIN_INTEREST)
\* when the word is still INITIAL_STATE
\* (a variant that keeps the join handle's reference)
drop_join_handle_fast_next_keepref(curr) ==
    IF curr = INITIAL_STATE THEN ClearBit(INITIAL_STATE, JOIN_INTEREST) ELSE None
drop_join_handle_fast_next(curr) ==
    IF curr = INITIAL_STATE
    THEN ClearBit(INITIAL_STATE - REF_ONE, JOIN_INTEREST)
    ELSE None

\* unset_join_interested / set_join_waker / unset_waker: None once COMPLETE
\* (a variant without the is_complete test)
unset_join_interested_next_nocheck(curr) == ClearBit(curr, JOIN_INTEREST)
unset_join_interested_next(curr) ==
    IF is_complete(curr) THEN None ELSE ClearBit(curr, JOIN_INTEREST)
unset_join_interested_assert(curr) == is_join_interested(curr)

set_join_waker_next(curr) ==
    IF is_complete(curr) THEN None ELSE SetBit(curr, JOIN_WAKER)
set_join_waker_assert(curr) == is_join_interested(curr) /\ ~has_join_waker(curr)

unset_waker_next(curr) ==
    IF is_complete(curr) THEN None ELSE ClearBit(curr, JOIN_WAKER)
unset_waker_assert(curr) == is_join_interested(curr) /\ has_join_waker(curr)

\* ref_inc / ref_dec: fetch_add / fetch_sub of REF_ONE
\* (a variant that adds 1, not REF_ONE, to the word)
ref_inc_next_unit(prev) == (prev + 1) % UsizeModulus
ref_inc_next(prev) == (prev + REF_ONE) % UsizeModulus
ref_dec_next(prev) == (prev - REF_ONE) % UsizeModulus
\* (a variant that tests the count after the decrement)
ref_dec_last_post(prev) == ref_count(prev) = 0
ref_dec_last(prev) == ref_count(prev) = 1
ref_dec_assert(prev) == ref_count(prev) >= 1

(***************************************************************************)
(* The state of one spawned task and of the contexts that touch its word.  *)
(***************************************************************************)
VARIABLES
    state,        \* the task's AtomicUsize state word
    queued,       \* run-queue entries that hold this task
    opc,          \* where the thread that runs the task stands
    ocurr,        \* its `curr` in fetch_update_action
    wakers,       \* the bag of live waker clones: where each stands, its `curr`
    jpc,          \* where the join handle stands
    jop,          \* the join-bit transition the join handle is in
    jcurr,        \* its `curr` in fetch_update
    jres,         \* what its last fetch_update returned
    obl,          \* Submit + OkNotified results since the last transition_to_running
    pendingWake,  \* a wake took effect and no run has started since
    deallocs,     \* number of ref_dec calls that returned true
    failed        \* an asserted precondition was violated
\* The debug_assert!s of state.rs are compiled out of a release build and
\* panic in a debug build.  The model takes the release build's step and
\* records the violated precondition in `failed`: the debug build's runs are
\* the runs of the model up to the first state with `failed` set.  The
\* assert!s of the join-bit closures panic in every build.

VARIABLES
    slab,         \* Ops.slab: slot index -> lifecycle of the operation in it
    sq,           \* the submission queue: entries pushed and not yet submitted
    inflight,     \* operations the kernel accepted and has not completed
    cq,           \* the completion queue: events tick has not consumed
    handle,       \* per operation: its Op handle (alive, index, data)
    fds,          \* per operation: descriptor created / handed out / closed
    woken,        \* the operations whose waker the last driver call woke, in order
    ub,           \* an unchecked slab lookup found no slot
    parked        \* the thread is blocked in submit_and_wait

driverVars == <<slab, sq, inflight, cq, handle, fds, woken, ub, parked>>

VARIABLES
    rpc,          \* where the thread is in Runtime::block_on
    tasks,        \* the run queue of the runtime's context (task ids, FIFO)
    max_round,    \* the counter of the drain loop
    pass,         \* the drain pass: the queue length at its start, the runs so far
    shouldPoll,   \* the flag set_poll sets and should_poll takes
    running,      \* the future being polled (0: the top-level one), or None
    fut,          \* the futures: state word, the Op held, what the poll did
    nested        \* block_on was called while a runtime was active

rtVars == <<rpc, tasks, max_round, pass, shouldPoll, running, fut, nested>>

VARIABLES
    ext_arg,      \* UringInner.ext_arg: the kernel supports extended wait arguments
    lastCall,     \* what the last call into the driver did and returned
    compl,        \* per operation: the result of its Completion in the owner's hands
    opener        \* the open options of an Opener

callVars == <<ext_arg, lastCall, compl, opener>>

\* what the steps of the task state machine leave alone
notTask == <<driverVars, rtVars, callVars>>

taskVars == <<state, queued, opc, ocurr, wakers, jpc, jop, jcurr,
              jres, obl, pendingWake, deallocs, failed>>

NoRes == [op |-> "none", kind |-> "none", raced |-> FALSE]

\* State::new() followed by spawn's push of the new task and the hand-out of
\* its JoinHandle.
InitTask ==
    /\ state = INITIAL_STATE
    /\ queued = 1
    /\ opc = "wait"
    /\ ocurr = 0
    /\ wakers = EmptyBag
    /\ jpc = "held"
    /\ jop = "none"
    /\ jcurr = 0
    /\ jres = NoRes
    /\ obl = 0
    /\ pendingWake = FALSE
    /\ deallocs = 0
    /\ failed = FALSE

(***************************************************************************)
(* The thread that runs the task: pop, transition_to_running, poll, then   *)
(* transition_to_idle or transition_to_complete, then drop of the popped   *)
(* task reference.                                                         *)
(***************************************************************************)
\* tasks.pop() and t.run() up to the load of fetch_update_action
pop_and_run ==
    /\ opc = "wait"
    /\ queued > 0
    /\ queued' = queued - 1
    /\ ocurr' = state
    /\ opc' = "run_cas"
    /\ UNCHANGED <<notTask, state, wakers, jpc, jop, jcurr, jres, obl,
                   pendingWake, deallocs, failed>>

\* one turn of the compare_exchange loop of transition_to_running
transition_to_running ==
    /\ opc = "run_cas"
    /\ failed' = (failed \/ ~transition_to_running_assert(ocurr))
    /\ IF state = ocurr
       THEN /\ state' = transition_to_running_next(ocurr)
            /\ opc' = "poll"
            /\ ocurr' = 0
            /\ obl' = 0
            /\ pendingWake' = FALSE
       ELSE /\ ocurr' = state
            /\ UNCHANGED <<state, opc, obl, pendingWake>>
    /\ UNCHANGED <<notTask, queued, wakers, jpc, jop, jcurr, jres, deallocs>>

\* the poll returned Pending: the load of transition_to_idle
poll_pending ==
    /\ opc = "poll"
    /\ ocurr' = state
    /\ opc' = "idle_cas"
    /\ UNCHANGED <<notTask, state, queued, wakers, jpc, jop, jcurr, jres, obl,
                   pendingWake, deallocs, failed>>

\* one turn of the compare_exchange loop of transition_to_idle
transition_to_idle ==
    /\ opc = "idle_cas"
    /\ failed' = (failed \/ ~transition_to_idle_assert(ocurr))
    /\ IF state = ocurr
       THEN /\ state' = transition_to_idle_next(ocurr)
            /\ ocurr' = 0
            /\ IF transition_to_idle_action(ocurr) = "OkNotified"
               THEN opc' = "resched_inc" /\ obl' = obl + 1
               ELSE opc' = "drop_ref" /\ obl' = obl
       ELSE /\ ocurr' = state
            /\ UNCHANGED <<state, opc, obl>>
    /\ UNCHANGED <<notTask, queued, wakers, jpc, jop, jcurr, jres,
                   pendingWake, deallocs>>

\* OkNotified: the caller re-schedules the task: a new reference ...
reschedule_ref_inc ==
    /\ opc = "resched_inc"
    /\ state' = ref_inc_next(state)
    /\ opc' = "resched_push"
    /\ UNCHANGED <<notTask, queued, ocurr, wakers, jpc, jop, jcurr, jres, obl,
                   pendingWake, deallocs, failed>>

\* ... pushed to the run queue
reschedule_push ==
    /\ opc = "resched_push"
    /\ queued' = queued + 1
    /\ opc' = "drop_ref"
    /\ UNCHANGED <<notTask, state, ocurr, wakers, jpc, jop, jcurr, jres, obl,
                   pendingWake, deallocs, failed>>

\* the poll returned Ready: transition_to_complete, one fetch_xor, which
\* returns Snapshot(prev ^ DELTA) to the caller
transition_to_complete ==
    /\ opc = "poll"
    /\ state' = fetch_xor_delta(state)
    /\ ocurr' = fetch_xor_delta(state)
    /\ failed' = (failed \/ ~transition_to_complete_assert(state))
    /\ opc' = "drop_ref"
    /\ UNCHANGED <<notTask, queued, wakers, jpc, jop, jcurr, jres, obl,
                   pendingWake, deallocs>>

\* ref_dec by a holder: the new word, the count of "last reference" results
\* and the asserted precondition
RefDec ==
    /\ state' = ref_dec_next(state)
    /\ deallocs' = deallocs + (IF ref_dec_last(state) THEN 1 ELSE 0)
    /\ failed' = (failed \/ ~ref_dec_assert(state))

\* the task popped from the queue is dropped at the end of run()
task_drop ==
    /\ opc = "drop_ref"
    /\ RefDec
    /\ opc' = "wait"
    /\ ocurr' = 0
    /\ UNCHANGED <<notTask, queued, wakers, jpc, jop, jcurr, jres, obl,
                   pendingWake>>

(***************************************************************************)
(* Wakers: clones of the task's waker held by other contexts.  Each clone  *)
(* holds one reference; wake consumes the clone.  The clones are           *)
(* interchangeable, so they are kept as a bag of their local states        *)
(* [pc, curr].                                                             *)
(***************************************************************************)
Waker(pc, curr) == [pc |-> pc, curr |-> curr]
WakerStep(from, to) == (wakers (-) SetToBag({from})) (+) SetToBag({to})
WakerGone(from) == wakers (-) SetToBag({from})

\* cx.waker().clone() during the poll: ref_inc
waker_clone ==
    /\ BagCardinality(wakers) < MaxWakers
    /\ opc = "poll"
    /\ state' = ref_inc_next(state)
    /\ wakers' = wakers (+) SetToBag({Waker("held", 0)})
    /\ UNCHANGED <<notTask, queued, opc, ocurr, jpc, jop, jcurr, jres, obl,
                   pendingWake, deallocs, failed>>

\* wake(): the load of transition_to_notified
waker_wake(w) ==
    /\ w.pc = "held"
    /\ wakers' = WakerStep(w, Waker("notify_cas", state))
    /\ UNCHANGED <<notTask, state, queued, opc, ocurr, jpc, jop, jcurr, jres, obl,
                   pendingWake, deallocs, failed>>

\* one turn of the compare_exchange loop of transition_to_notified
transition_to_notified(w) ==
    /\ w.pc = "notify_cas"
    /\ IF state = w.curr
       THEN /\ state' = transition_to_notified_next(w.curr)
            /\ pendingWake' = (pendingWake \/ ~is_complete(w.curr))
            /\ IF transition_to_notified_action(w.curr) = "Submit"
               THEN wakers' = WakerStep(w, Waker("push", 0)) /\ obl' = obl + 1
               ELSE wakers' = WakerStep(w, Waker("dec", 0)) /\ obl' = obl
       ELSE /\ wakers' = WakerStep(w, Waker("notify_cas", state))
            /\ UNCHANGED <<state, obl, pendingWake>>
    /\ UNCHANGED <<notTask, queued, opc, ocurr, jpc, jop, jcurr, jres, deallocs, failed>>

\* Submit: the waker's reference becomes the run-queue entry
waker_push(w) ==
    /\ w.pc = "push"
    /\ queued' = queued + 1
    /\ wakers' = WakerGone(w)
    /\ UNCHANGED <<notTask, state, opc, ocurr, jpc, jop, jcurr, jres, obl,
                   pendingWake, deallocs, failed>>

\* DoNothing, or the waker is dropped unused: its reference is released
waker_drop(w) ==
    /\ w.pc \in {"held", "dec"}
    /\ RefDec
    /\ wakers' = WakerGone(w)
    /\ UNCHANGED <<notTask, queued, opc, ocurr, jpc, jop, jcurr, jres, obl, pendingWake>>

\* a holder of a waker clone calls transition_to_notified_without_submit
\* through its reference: the load of fetch_update_action
without_submit_call(w) ==
    /\ w.pc = "held"
    /\ wakers' = WakerStep(w, Waker("try_cas", state))
    /\ UNCHANGED <<notTask, state, queued, opc, ocurr, jpc, jop, jcurr, jres, obl,
                   pendingWake, deallocs, failed>>

\* one turn of the compare_exchange loop of
\* transition_to_notified_without_submit; the call returns true or false
\* and takes nothing from the caller
transition_to_notified_without_submit(w) ==
    /\ w.pc = "try_cas"
    /\ IF state = w.curr
       THEN /\ state' = transition_to_notified_without_submit_next(w.curr)
            /\ IF transition_to_notified_without_submit_action(w.curr)
               THEN /\ wakers' = WakerStep(w, Waker("ret_true", 0))
                    /\ pendingWake' = (pendingWake \/ ~is_complete(w.curr))
               ELSE /\ wakers' = WakerStep(w, Waker("ret_false", 0))
                    /\ pendingWake' = pendingWake
       ELSE /\ wakers' = WakerStep(w, Waker("try_cas", state))
            /\ UNCHANGED <<state, pendingWake>>
    /\ UNCHANGED <<notTask, queued, opc, ocurr, jpc, jop, jcurr, jres, obl,
                   deallocs, failed>>

\* the caller has its answer and still holds its clone
without_submit_return(w) ==
    /\ w.pc \in {"ret_true", "ret_false"}
    /\ wakers' = WakerStep(w, Waker("held", 0))
    /\ UNCHANGED <<notTask, state, queued, opc, ocurr, jpc, jop, jcurr, jres, obl,
                   pendingWake, deallocs, failed>>

(***************************************************************************)
(* The join handle: polled (set_join_waker, or unset_waker and then        *)
(* set_join_waker) and dropped (drop_join_handle_fast, else                *)
(* unset_join_interested and ref_dec).                                     *)
(***************************************************************************)
JoinNext(op, curr) ==
    CASE op = "drop_join_handle_fast" -> drop_join_handle_fast_next(curr)
      [] op = "unset_join_interested" -> unset_join_interested_next(curr)
      [] op = "set_join_waker" -> set_join_waker_next(curr)
      [] op = "unset_waker" -> unset_waker_next(curr)

JoinAssert(op, curr) ==
    CASE op = "drop_join_handle_fast" -> TRUE
      [] op = "unset_join_interested" -> unset_join_interested_assert(curr)
      [] op = "set_join_waker" -> set_join_waker_assert(curr)
      [] op = "unset_waker" -> unset_waker_assert(curr)

\* the join handle is polled before the task completed
join_poll ==
    /\ jpc = "held"
    /\ ~is_complete(state)
    /\ jop' = IF has_join_waker(state) THEN "unset_waker" ELSE "set_join_waker"
    /\ jpc' = "load"
    /\ UNCHANGED <<notTask, state, queued, opc, ocurr, wakers, jcurr, jres, obl,
                   pendingWake, deallocs, failed>>

\* the join handle is dropped
join_drop ==
    /\ jpc = "held"
    /\ jop' = "drop_join_handle_fast"
    /\ jpc' = "load"
    /\ UNCHANGED <<notTask, state, queued, opc, ocurr, wakers, jcurr, jres, obl,
                   pendingWake, deallocs, failed>>

\* fetch_update: let mut curr = self.load()
fetch_update_load ==
    /\ jpc = "load"
    /\ jcurr' = state
    /\ jres' = [NoRes EXCEPT !.raced = ~is_complete(state)]
    /\ jpc' = "cas"
    /\ UNCHANGED <<notTask, state, queued, opc, ocurr, wakers, jop, obl,
                   pendingWake, deallocs, failed>>

\* what the join handle does with the result of a join-bit transition
JoinAfter(op, kind) ==
    CASE op = "drop_join_handle_fast" /\ kind = "Ok" -> <<"gone", "none">>
      [] op = "drop_join_handle_fast" /\ kind = "Err" ->
             <<"load", "unset_join_interested">>
      [] op = "unset_join_interested" -> <<"dec", "none">>
      [] op = "unset_waker" /\ kind = "Ok" -> <<"load", "set_join_waker">>
      [] op = "unset_waker" /\ kind = "Err" -> <<"held", "none">>
      [] op = "set_join_waker" -> <<"held", "none">>

\* fetch_update: one turn of the loop: f(curr), then compare_exchange
fetch_update_cas ==
    /\ jpc = "cas"
    /\ LET next == JoinNext(jop, jcurr)
           ret(kind) ==
               /\ jres' = [op |-> jop, kind |-> kind, raced |-> jres.raced]
               /\ jpc' = "ret"
               /\ jcurr' = 0
               /\ jop' = jop
       IN  IF ~JoinAssert(jop, jcurr)
           THEN /\ failed' = TRUE
                /\ jpc' = "panicked"
                /\ UNCHANGED <<state, jop, jcurr, jres>>
           ELSE /\ failed' = failed
                /\ IF next = None
                   THEN ret("Err") /\ state' = state
                   ELSE IF state = jcurr
                   THEN ret("Ok") /\ state' = next
                   ELSE /\ jcurr' = state
                        /\ UNCHANGED <<state, jpc, jop, jres>>
    /\ UNCHANGED <<notTask, queued, opc, ocurr, wakers, obl, pendingWake,
                   deallocs>>

\* the caller of the join-bit transition matches on its result
join_result ==
    /\ jpc = "ret"
    /\ jpc' = JoinAfter(jop, jres.kind)[1]
    /\ jop' = JoinAfter(jop, jres.kind)[2]
    /\ jres' = NoRes
    /\ UNCHANGED <<notTask, state, queued, opc, ocurr, wakers, jcurr, obl,
                   pendingWake, deallocs, failed>>

\* the slow path of the drop releases the join handle's reference
join_ref_dec ==
    /\ jpc = "dec"
    /\ RefDec
    /\ jpc' = "gone"
    /\ UNCHANGED <<notTask, queued, opc, ocurr, wakers, jop, jcurr, jres, obl,
                   pendingWake>>

(***************************************************************************)
(* driver/mod.rs: the reserved user_data values.  TLC's integers are 32    *)
(* bits wide: the model's u64::MAX (and usize::MAX) is the largest of      *)
(* them.                                                                   *)
(***************************************************************************)
U64_MAX == 2147483647
CANCEL_USERDATA == U64_MAX
TIMEOUT_USERDATA == U64_MAX - 1
MIN_REVERSED_USERDATA == U64_MAX - 3
\* the index of an Op whose poll returned Ready
USIZE_MAX == U64_MAX

\* the operation types of driver/file_io
OpTypes == {"openat", "close"}
RET_IS_FD(t) == t = "openat"
\* (a variant in which no operation type is cancel-exempt)
SKIP_CANCEL_none(t) == FALSE
SKIP_CANCEL(t) == t = "close"

(***************************************************************************)
(* The slab of lifecycles (driver/uring).  A slot is vacant or holds the   *)
(* lifecycle of one operation: Submitted, Waiting (a waker is registered), *)
(* Ignored (the Op was dropped in flight) or Completed (with its result).  *)
(***************************************************************************)
\* `res` is the kind of the stored io::Result ("Ok", "Err", or "none" while
\* there is none), `val` its number (the value of Ok, the errno of Err) and
\* `flags` the flags stored with it
Vacant == [st |-> "Vacant", is_fd |-> FALSE, res |-> "none", op |-> 0,
           val |-> 0, flags |-> 0]
Lifecycle(st, is_fd, res, o) == [st |-> st, is_fd |-> is_fd, res |-> res, op |-> o,
                                 val |-> 0, flags |-> 0]

\* the driver state the operations below transform
Drv == [slab |-> slab, sq |-> sq, inflight |-> inflight, cq |-> cq,
        fds |-> fds, woken |-> <<>>, ub |-> ub]
SetDrv(d) ==
    /\ slab' = d.slab
    /\ sq' = d.sq
    /\ inflight' = d.inflight
    /\ cq' = d.cq
    /\ fds' = d.fds
    /\ woken' = d.woken
    /\ ub' = d.ub

NoFd == [created |-> 0, handed |-> 0, closed |-> 0]
\* the index field of an OpCanceller: none was made of the Op, or the one
\* made was used
NoCanceller == -1
UsedCanceller == -2
\* an Op: whether it exists, its slab index, whether its data is there, its
\* operation type, whether its drop pushed an async cancel, and the index
\* held by the OpCanceller made of it
NoHandle == [alive |-> "none", index |-> 0, data |-> FALSE, type |-> "none",
             cancel |-> FALSE, canc |-> NoCanceller]
SqOp(i, o) == [kind |-> "op", tag |-> i, target |-> 0, op |-> o]
SqCancel(i) == [kind |-> "cancel", tag |-> CANCEL_USERDATA, target |-> i, op |-> 0]
\* the same entry, with the Op on whose behalf it was built
SqCancelFor(i, o) == [SqCancel(i) EXCEPT !.op = o]
\* the entry install_timeout pushes
SqTimeout == [kind |-> "timeout", tag |-> TIMEOUT_USERDATA, target |-> 0, op |-> 0]
\* a completion event: user_data, result (negative: -errno) and flags
Cqe(tag, res, o) == [tag |-> tag, res |-> res, op |-> o, flags |-> 0]
\* what the kernel answers to an operation: -ENOENT, or a number that is not
\* negative; and the flags of an event
KernelResults == {-2, 3}
CqeFlags == {0, 1}

\* unwrap_to_result: Ok(res as u32) if res >= 0, else
\* Err(io::Error::from_raw_os_error(-res))
\* (a variant that takes 0 for an error)
unwrap_to_result_positive(res) ==
    IF res > 0 THEN [kind |-> "Ok", val |-> res] ELSE [kind |-> "Err", val |-> -res]
unwrap_to_result(res) ==
    IF res >= 0 THEN [kind |-> "Ok", val |-> res] ELSE [kind |-> "Err", val |-> -res]
\* a timeout the kernel holds armed
Timer == [tag |-> TIMEOUT_USERDATA, op |-> 0, cancelled |-> FALSE, by |-> 0]

InitDriver ==
    /\ slab = [i \in Slots |-> Vacant]
    /\ sq = <<>>
    /\ inflight = {}
    /\ cq = <<>>
    /\ handle = [o \in Ops |-> NoHandle]
    /\ fds = [o \in Ops |-> NoFd]
    /\ woken = <<>>
    /\ ub = FALSE
    /\ parked = FALSE

\* impl Drop for MaybeFd: close the descriptor if the value is marked as one
\* (a variant that never closes)
MaybeFd_drop_never(is_fd) == FALSE
MaybeFd_drop(is_fd) == is_fd

\* a result is dropped: an Ok result is a MaybeFd and runs its drop
DropResult(d, res, is_fd, o) ==
    IF res = "Ok" /\ MaybeFd_drop(is_fd)
    THEN [d EXCEPT !.fds[o].closed = @ + 1]
    ELSE d

\* the lifecycle `l` completed with the result and the flags of `e`
Completed(l, e) ==
    [Lifecycle("Completed", l.is_fd, e.res.kind, l.op)
        EXCEPT !.val = e.res.val, !.flags = e.flags]

\* Ops::complete and the lifecycle's complete: the result and the flags of
\* `e` reach the slot of its tag
\* (a variant that completes a waiting slot without waking its waker)
Ops_complete_nowake(d, e) ==
    IF e.tag \notin Slots \/ d.slab[e.tag].st = "Vacant"
    THEN [d EXCEPT !.ub = TRUE]
    ELSE LET l == d.slab[e.tag] IN
         CASE l.st \in {"Submitted", "Waiting"} ->
                [d EXCEPT !.slab[e.tag] = Completed(l, e)]
           [] l.st = "Ignored" ->
                DropResult([d EXCEPT !.slab[e.tag] = Vacant], e.res.kind, l.is_fd, l.op)
           [] l.st = "Completed" -> [d EXCEPT !.ub = TRUE]
Ops_complete(d, e) ==
    IF e.tag \notin Slots \/ d.slab[e.tag].st = "Vacant"
    THEN [d EXCEPT !.ub = TRUE]
    ELSE LET l == d.slab[e.tag] IN
         CASE l.st = "Submitted" ->
                [d EXCEPT !.slab[e.tag] = Completed(l, e)]
           [] l.st = "Waiting" ->
                [d EXCEPT !.slab[e.tag] = Completed(l, e),
                          !.woken = Append(@, l.op)]
           [] l.st = "Ignored" ->
                DropResult([d EXCEPT !.slab[e.tag] = Vacant], e.res.kind, l.is_fd, l.op)
           [] l.st = "Completed" -> [d EXCEPT !.ub = TRUE]

\* tick: `_ if index >= MIN_REVERSED_USERDATA => ()`
\* (a variant without the arm: every tag is looked up in the slab)
IsReservedTag_none(tag) == FALSE
\* (a variant with the comparison reversed)
IsReservedTag_flipped(tag) == tag <= MIN_REVERSED_USERDATA
IsReservedTag(tag) == tag >= MIN_REVERSED_USERDATA

\* UringInner::tick: every event of the completion queue, in order; the
\* reserved tags are consumed silently
RECURSIVE TickLoop(_, _)
TickLoop(d, events) ==
    IF events = <<>> THEN d
    ELSE LET e == Head(events) IN
         TickLoop(IF IsReservedTag(e.tag) THEN d
                  ELSE Ops_complete(d, [e EXCEPT !.res = unwrap_to_result(e.res)]),
                  Tail(events))
tick(d) == TickLoop([d EXCEPT !.cq = <<>>], d.cq)

\* the kernel takes the entries of the submission queue in order: an
\* operation goes in flight; a timeout is armed; an async cancel looks for
\* the operation in flight with the user_data it names and asks it to end
\* (the operation still completes once, with the result the kernel chooses);
\* the cancel's own event carries CANCEL_USERDATA
RECURSIVE KernelTake(_, _)
KernelTake(d, entries) ==
    IF entries = <<>> THEN d
    ELSE LET e == Head(entries)
             found == {k \in d.inflight : k.tag = e.target}
         IN  IF e.kind = "op"
             THEN KernelTake([d EXCEPT !.inflight = @ \cup
                                 {[tag |-> e.tag, op |-> e.op, cancelled |-> FALSE,
                                   by |-> 0]}],
                             Tail(entries))
             ELSE IF e.kind = "timeout"
             THEN KernelTake([d EXCEPT !.inflight = @ \cup {Timer}], Tail(entries))
             ELSE KernelTake([d EXCEPT
                     !.inflight = {IF k \in found
                                   THEN [k EXCEPT !.cancelled = TRUE, !.by = e.op]
                                   ELSE k : k \in @},
                     !.cq = Append(@, Cqe(CANCEL_USERDATA,
                                          IF found # {} THEN 0 ELSE -2, 0))],
                             Tail(entries))

\* UringInner::submit matches the error of the kernel's submit call:
\* matches!(e.raw_os_error(), Some(libc::EAGAIN) | Some(libc::EBUSY))
\* (a variant that matches EAGAIN only)
IsTransient_eagain(e) == e = "EAGAIN"
IsTransient(e) == e \in {"EAGAIN", "EBUSY"}

\* UringInner::submit: the loop.  `answers` is what the kernel's submit call
\* answers, call after call: "ok" or an errno.  On EAGAIN / EBUSY tick and
\* call again; any other answer is returned.  The result: the driver state,
\* what is returned, and the number of ticks made on the way.
RECURSIVE UringInner_submit(_, _)
UringInner_submit(d, answers) ==
    LET a == Head(answers) IN
    IF a = "ok"
    THEN [d |-> KernelTake([d EXCEPT !.sq = <<>>], d.sq), res |-> "Ok", ticks |-> 0]
    ELSE IF IsTransient(a)
    THEN [UringInner_submit(tick(d), Tail(answers)) EXCEPT !.ticks = @ + 1]
    ELSE [d |-> d, res |-> a, ticks |-> 0]

\* the outcomes of the io_uring submit call
SubmitOutcomes == {"ok", "busy", "err"}
\* the kernel's answers behind an outcome: "ok", "busy" (once, then ok) or
\* "err" (an error that is not transient)
AnswersOf(out) ==
    CASE out = "ok" -> <<"ok">>
      [] out = "busy" -> <<"EBUSY", "ok">>
      [] out = "err" -> <<"EINTR">>

\* UringInner::submit as the driver's other operations use it
inner_submit(d, out) == UringInner_submit(d, AnswersOf(out)).d

(***************************************************************************)
(* The driver's operations, called by code that runs on the driver's       *)
(* thread, and the kernel.                                                 *)
(***************************************************************************)
VacantSlots(d) == {i \in Slots : d.slab[i].st = "Vacant"}
\* Ops::insert: the index the slab hands out (the lowest free one)
Ops_insert(d) == CHOOSE i \in VacantSlots(d) : \A j \in VacantSlots(d) : i <= j
NextOp == IF \E o \in Ops : handle[o].alive = "none"
          THEN CHOOSE o \in Ops : handle[o].alive = "none"
                                  /\ \A p \in Ops : p < o => handle[p].alive # "none"
          ELSE 0

\* inner.uring.submission().is_full()
\* (a variant that never finds the queue full)
is_full_never(q) == FALSE
is_full(q) == Len(q) = SqCap

\* UringInner::submit_with_data: flush if the queue is full, reserve a slot
\* (Ops::insert), push the entry tagged with the slot's index
submit_with_data(t, out) ==
    /\ ~parked
    /\ NextOp # 0
    /\ LET o == NextOp
           full == is_full(sq)
           d == IF full THEN inner_submit(Drv, out) ELSE Drv
       IN  /\ ~full => out = "ok"
           /\ IF full /\ out = "err"
              THEN /\ woken' = <<>>
                   /\ UNCHANGED <<slab, sq, inflight, cq, handle, fds, ub, parked>>
              ELSE LET i == Ops_insert(d) IN
                     /\ VacantSlots(d) # {}
                     /\ SetDrv([d EXCEPT
                            !.slab[i] = Lifecycle("Submitted", RET_IS_FD(t), "none", o),
                            !.sq = Append(@, SqOp(i, o))])
                     /\ handle' = [handle EXCEPT ![o] =
                            [alive |-> "live", index |-> i, data |-> TRUE,
                             type |-> t, cancel |-> FALSE, canc |-> NoCanceller]]
                     /\ UNCHANGED parked

\* Op::poll on an Op whose data was taken by an earlier Ready:
\* `me.data.as_mut().expect("unexpected operation state")` panics before
\* me.driver.poll_op is called; the unwinding drops the Op, whose index is
\* usize::MAX by then
\* (a variant without the expect: the driver's poll_op is reached and looks
\* the index up with get(index).unwrap_unchecked())
Op_poll_taken_unchecked(o) ==
    /\ ~parked
    /\ handle[o].alive = "live"
    /\ ~handle[o].data
    /\ ub' = (ub \/ handle[o].index \notin Slots
                  \/ slab[handle[o].index].st = "Vacant")
    /\ woken' = <<>>
    /\ UNCHANGED <<slab, sq, inflight, cq, handle, fds, parked>>
Op_poll_taken(o) ==
    /\ ~parked
    /\ handle[o].alive = "live"
    /\ ~handle[o].data
    /\ handle' = [handle EXCEPT ![o].alive = "panicked"]
    /\ woken' = <<>>
    /\ UNCHANGED <<slab, sq, inflight, cq, fds, ub, parked>>

\* Op::poll, UringInner::poll_op and the lifecycle's poll_op: register the
\* waker, or take the completion out of the slot and invalidate the index
\* (a variant that takes the completion and keeps the index)
poll_op_keepindex(o) ==
    /\ ~parked
    /\ handle[o].alive = "live"
    /\ handle[o].data
    /\ LET i == handle[o].index
           l == slab[i]
       IN  CASE l.st \in {"Submitted", "Waiting"} ->
                  /\ slab' = [slab EXCEPT ![i].st = "Waiting"]
                  /\ UNCHANGED <<handle, fds>>
             [] l.st = "Completed" ->
                  /\ slab' = [slab EXCEPT ![i] = Vacant]
                  /\ handle' = [handle EXCEPT ![o].data = FALSE]
                  /\ fds' = IF l.res = "Ok" /\ l.is_fd
                            THEN [fds EXCEPT ![o].handed = @ + 1]
                            ELSE fds
    /\ woken' = <<>>
    /\ UNCHANGED <<sq, inflight, cq, ub, parked>>
poll_op(o) ==
    /\ ~parked
    /\ handle[o].alive = "live"
    /\ handle[o].data
    /\ LET i == handle[o].index
           l == slab[i]
       IN  CASE l.st \in {"Submitted", "Waiting"} ->
                  /\ slab' = [slab EXCEPT ![i].st = "Waiting"]
                  /\ UNCHANGED <<handle, fds>>
             [] l.st = "Completed" ->
                  /\ slab' = [slab EXCEPT ![i] = Vacant]
                  /\ handle' = [handle EXCEPT ![o].index = USIZE_MAX,
                                              ![o].data = FALSE]
                  /\ fds' = IF l.res = "Ok" /\ l.is_fd
                            THEN [fds EXCEPT ![o].handed = @ + 1]
                            ELSE fds
    /\ woken' = <<>>
    /\ UNCHANGED <<sq, inflight, cq, ub, parked>>

\* the cancel pushed on behalf of the Op o: push, and if the queue is full
\* submit and push again; a failure of either is ignored
PushCancelFor(d, i, o, out) ==
    IF Len(d.sq) < SqCap
    THEN [d EXCEPT !.sq = Append(@, SqCancelFor(i, o))]
    ELSE LET e == inner_submit(d, out)
         IN  IF Len(e.sq) < SqCap
             THEN [e EXCEPT !.sq = Append(@, SqCancelFor(i, o))]
             ELSE e

\* the cancel of drop_op, for the Op that holds the slot
PushCancel(d, i, out) == PushCancelFor(d, i, d.slab[i].op, out)

\* Op::op_canceller: an OpCanceller with a copy of the Op's index
op_canceller(o) ==
    /\ ~parked
    /\ handle[o].alive = "live"
    /\ handle[o].canc = NoCanceller
    /\ handle' = [handle EXCEPT ![o].canc = handle[o].index]
    /\ woken' = <<>>
    /\ UNCHANGED <<slab, sq, inflight, cq, fds, ub, parked>>

\* OpCanceller::cancel and UringInner::cancel_op: an async cancel of the
\* index the canceller holds, pushed as drop_op pushes its cancel; the
\* canceller does not know of the Op it was made of
OpCanceller_cancel(o, out) ==
    /\ ~parked
    /\ handle[o].canc \notin {NoCanceller, UsedCanceller}
    /\ Len(sq) < SqCap => out = "ok"
    /\ SetDrv(PushCancelFor(Drv, handle[o].canc, o, out))
    /\ handle' = [handle EXCEPT ![o].canc = UsedCanceller]
    /\ UNCHANGED parked

\* impl Drop for Op, UringInner::drop_op and the lifecycle's drop_op
drop_op(o, out) ==
    /\ ~parked
    /\ handle[o].alive = "live"
    /\ LET i == handle[o].index
           full == Len(sq) = SqCap
       IN  IF i = USIZE_MAX \/ slab[i].st = "Vacant"
           THEN /\ out = "ok"
                /\ handle' = [handle EXCEPT ![o].alive = "dropped"]
                /\ woken' = <<>>
                /\ UNCHANGED <<slab, sq, inflight, cq, fds, ub>>
           ELSE IF slab[i].st = "Completed"
           THEN /\ out = "ok"
                /\ handle' = [handle EXCEPT ![o].alive = "dropped"]
                /\ SetDrv(DropResult([Drv EXCEPT !.slab[i] = Vacant],
                                     slab[i].res, slab[i].is_fd, slab[i].op))
           ELSE LET d == [Drv EXCEPT !.slab[i].st = "Ignored"]
                    cancels == ~SKIP_CANCEL(handle[o].type)
                IN  /\ (~cancels \/ ~full) =>
                           out = "ok"
                    /\ handle' = [handle EXCEPT ![o].alive = "dropped",
                                                ![o].cancel = cancels]
                    /\ SetDrv(IF cancels THEN PushCancel(d, i, out) ELSE d)
    /\ UNCHANGED parked

\* Driver::submit for IoUringDriver: inner.submit()?, then inner.tick()
driver_submit(out) ==
    /\ ~parked
    /\ SetDrv(IF out = "err" THEN Drv ELSE tick(inner_submit(Drv, out)))
    /\ UNCHANGED <<handle, parked>>

\* Driver::park: submit_and_wait(1) hands the queue to the kernel and blocks
\* until an event is there ...
park_enter ==
    /\ ~parked
    /\ SetDrv(inner_submit(Drv, "ok"))
    /\ parked' = TRUE
    /\ UNCHANGED handle

\* ... then tick
park_wake ==
    /\ parked
    /\ cq # <<>>
    /\ SetDrv(tick(Drv))
    /\ parked' = FALSE
    /\ UNCHANGED handle

\* the kernel completes an operation in flight: an event with its tag; the
\* Ok result of an operation that returns a descriptor is a new descriptor
kernel_cqe(k, res, fl) ==
    /\ k \in inflight
    /\ k # Timer
    /\ inflight' = inflight \ {k}
    /\ cq' = Append(cq, [Cqe(k.tag, res, k.op) EXCEPT !.flags = fl])
    /\ fds' = IF res >= 0 /\ RET_IS_FD(handle[k.op].type)
              THEN [fds EXCEPT ![k.op].created = @ + 1]
              ELSE fds
    /\ UNCHANGED <<slab, sq, handle, woken, ub, parked>>

kernel_complete(k, res) == kernel_cqe(k, res, 0) /\ UNCHANGED <<taskVars, rtVars, callVars>>

\* the driver's operations called by code outside a runtime loop: nothing
\* else changes
caller_submit_with(t, out) == submit_with_data(t, out) /\ UNCHANGED <<taskVars, rtVars, callVars>>
caller_poll_op(o) == poll_op(o) /\ UNCHANGED <<taskVars, rtVars, callVars>>
caller_poll_taken(o) == Op_poll_taken(o) /\ UNCHANGED <<taskVars, rtVars, callVars>>
caller_drop_op(o, out) == drop_op(o, out) /\ UNCHANGED <<taskVars, rtVars, callVars>>
caller_submit(out) == driver_submit(out) /\ UNCHANGED <<taskVars, rtVars, callVars>>
caller_park == park_enter /\ UNCHANGED <<taskVars, rtVars, callVars>>
caller_unpark == park_wake /\ UNCHANGED <<taskVars, rtVars, callVars>>
caller_op_canceller(o) == op_canceller(o) /\ UNCHANGED <<taskVars, rtVars, callVars>>
caller_cancel(o, out) == OpCanceller_cancel(o, out) /\ UNCHANGED <<taskVars, rtVars, callVars>>

(***************************************************************************)
(* The calls into the driver with what they return.  `lastCall` holds,        *)
(* until the next step, the call just made: whether it found the queue     *)
(* full, the answers of the kernel it met, the ticks it made, the           *)
(* operation completions its last tick processed, and its result.          *)
(***************************************************************************)
NoRet == [call |-> "none", res |-> "none", full |-> FALSE, kernel |-> <<>>,
          ticks |-> 0, done |-> 0, args |-> <<>>]
NoCompl == [st |-> "none", is_fd |-> FALSE, closes |-> 0]

\* what the kernel may answer to the submit calls of one UringInner::submit:
\* transient errors, then success or an error that is not transient
TransientRuns == {<<>>, <<"EAGAIN">>, <<"EBUSY">>, <<"EBUSY", "EAGAIN">>}
KernelAnswers == {tr \o <<fin>> : tr \in TransientRuns, fin \in {"ok", "EINTR", "ENXIO"}}

\* the events of operations (not of timeouts or cancels) in a completion queue
OpEvents(q) == {n \in 1..Len(q) : ~IsReservedTag(q[n].tag)}

\* Driver::submit: inner.submit()?, inner.tick()?
call_submit(answers) ==
    /\ ~parked
    /\ LET r == UringInner_submit(Drv, answers) IN
        /\ SetDrv(IF r.res = "Ok" THEN tick(r.d) ELSE r.d)
        /\ lastCall' = [NoRet EXCEPT !.call = "submit", !.res = r.res,
                                !.kernel = answers, !.ticks = r.ticks]
    /\ UNCHANGED <<handle, parked, ext_arg, compl, opener>>
    /\ UNCHANGED <<taskVars, rtVars>>

\* Op::submit_with: Ok(op), or the error of the flush
call_submit_with(t, out) ==
    /\ submit_with_data(t, out)
    /\ lastCall' = [NoRet EXCEPT !.call = "submit_with", !.full = is_full(sq),
                            !.kernel = IF is_full(sq) THEN AnswersOf(out) ELSE <<>>,
                            !.res = IF is_full(sq)
                                    THEN UringInner_submit(Drv, AnswersOf(out)).res
                                    ELSE "Ok"]
    /\ UNCHANGED <<ext_arg, compl, opener>>
    /\ UNCHANGED <<taskVars, rtVars>>

call_drop_op(o, out) ==
    /\ drop_op(o, out)
    /\ lastCall' = NoRet
    /\ UNCHANGED <<ext_arg, compl, opener>>
    /\ UNCHANGED <<taskVars, rtVars>>

call_poll_op(o) ==
    /\ poll_op(o)
    /\ lastCall' = NoRet
    /\ UNCHANGED <<ext_arg, compl, opener>>
    /\ UNCHANGED <<taskVars, rtVars>>

\* inner_park's `if let Err(e) = .. submit_with_args(1, &args)`: the error is
\* returned unless it is ETIME
\* (a variant that returns every error)
ext_wait_is_error_all(e) == e # "ok"
ext_wait_is_error(e) == e # "ok" /\ e # "ETIME"

\* a timeout entry of an earlier park is armed or its event not yet consumed;
\* the model keeps one timeout entry at a time
TimeoutPending ==
    Timer \in inflight \/ \E n \in 1..Len(cq) : cq[n].tag = TIMEOUT_USERDATA

\* Driver::park_timeout, inner_park(Some(duration)) up to the wait:
\* flush_space(inner, 1), then install_timeout and submit_and_wait(1), or
\* submit_with_args(1, &args); the wait hands the queue to the kernel
park_timeout_enter(out) ==
    /\ ~parked
    /\ ~ext_arg => ~TimeoutPending
    /\ LET need == Len(sq) + 1 > SqCap
           r == IF need THEN UringInner_submit(Drv, AnswersOf(out))
                ELSE [d |-> Drv, res |-> "Ok", ticks |-> 0]
           e == IF ext_arg THEN r.d ELSE [r.d EXCEPT !.sq = Append(@, SqTimeout)]
       IN  /\ ~need => out = "ok"
           /\ IF r.res # "Ok"
              THEN /\ SetDrv(r.d)
                   /\ parked' = FALSE
                   /\ lastCall' = [NoRet EXCEPT !.call = "park_timeout", !.full = need,
                                           !.res = r.res]
              ELSE /\ SetDrv(KernelTake([e EXCEPT !.sq = <<>>], e.sq))
                   /\ parked' = TRUE
                   /\ lastCall' = [NoRet EXCEPT !.call = "park_timeout", !.full = need,
                                           !.ticks = r.ticks, !.res = "blocked"]
    /\ UNCHANGED <<handle, ext_arg, compl, opener>>
    /\ UNCHANGED <<taskVars, rtVars>>

\* ... the wait returns `w`: "ok" once an event is there, ETIME when the
\* timeout of the extended wait elapsed, or another error; then tick
park_timeout_wake(w) ==
    /\ parked
    /\ lastCall.call = "park_timeout"
    /\ w = "ok" => cq # <<>>
    /\ w = "ETIME" => ext_arg
    /\ IF (IF ext_arg THEN ext_wait_is_error(w) ELSE w # "ok")
       THEN /\ lastCall' = [lastCall EXCEPT !.res = w, !.kernel = <<w>>]
            /\ woken' = <<>>
            /\ UNCHANGED <<slab, sq, inflight, cq, fds, ub>>
       ELSE /\ SetDrv(tick(Drv))
            /\ lastCall' = [lastCall EXCEPT !.res = "Ok", !.kernel = <<w>>,
                                  !.done = Cardinality(OpEvents(cq))]
    /\ parked' = FALSE
    /\ UNCHANGED <<handle, ext_arg, compl, opener>>
    /\ UNCHANGED <<taskVars, rtVars>>

\* the kernel, between two calls
kernel_completes(k, res, fl) ==
    /\ kernel_cqe(k, res, fl)
    /\ lastCall' = IF parked THEN lastCall ELSE NoRet
    /\ UNCHANGED <<ext_arg, compl, opener>>
    /\ UNCHANGED <<taskVars, rtVars>>

\* an armed timeout elapses: its event carries TIMEOUT_USERDATA and -ETIME
kernel_timeout ==
    /\ Timer \in inflight
    /\ inflight' = inflight \ {Timer}
    /\ cq' = Append(cq, Cqe(TIMEOUT_USERDATA, -62, 0))
    /\ lastCall' = IF parked THEN lastCall ELSE NoRet
    /\ UNCHANGED <<slab, sq, handle, fds, woken, ub, parked, ext_arg, compl, opener>>
    /\ UNCHANGED <<taskVars, rtVars>>

(***************************************************************************)
(* fs/Opener.rs: the open options, their validation, and openat; and the   *)
(* MaybeFd a completed operation hands to its owner.                       *)
(***************************************************************************)
\* the six flags of an Opener, and Opener::new
OpenerFlags == {"read", "write", "append", "truncate", "create", "create_new"}
Opener_new == [f \in OpenerFlags |-> FALSE]

\* Opener::read, write, append, truncate, create, create_new: set one flag
Opener_set(f, v) ==
    /\ opener' = [opener EXCEPT ![f] = v]
    /\ lastCall' = NoRet
    /\ UNCHANGED <<driverVars, ext_arg, compl>>
    /\ UNCHANGED <<taskVars, rtVars>>

\* an io::Result of flag bits
FlagsOk(bits) == [err |-> "none", bits |-> bits]
FlagsErr(e) == [err |-> e, bits |-> {}]

\* Opener::access_mode: the access flags, or EINVAL
access_mode(s) ==
    CASE s.read /\ ~s.write /\ ~s.append -> FlagsOk({"O_RDONLY"})
      [] ~s.read /\ s.write /\ ~s.append -> FlagsOk({"O_WRONLY"})
      [] s.read /\ s.write /\ ~s.append -> FlagsOk({"O_RDWR"})
      [] ~s.read /\ s.append -> FlagsOk({"O_WRONLY", "O_APPEND"})
      [] s.read /\ s.append -> FlagsOk({"O_RDWR", "O_APPEND"})
      [] ~s.read /\ ~s.write /\ ~s.append -> FlagsErr("EINVAL")

\* the last match of creation_mode
CreationBits(s) ==
    CASE s.create_new -> {"O_CREAT", "O_EXCL"}
      [] ~s.create /\ ~s.truncate /\ ~s.create_new -> {}
      [] s.create /\ ~s.truncate /\ ~s.create_new -> {"O_CREAT"}
      [] ~s.create /\ s.truncate /\ ~s.create_new -> {"O_TRUNC"}
      [] s.create /\ s.truncate /\ ~s.create_new -> {"O_CREAT", "O_TRUNC"}

\* Opener::creation_mode: the creation flags, or EINVAL
\* (a variant without the test of the append arm)
creation_mode_noappendtest(s) ==
    IF ~s.write /\ ~s.append /\ (s.truncate \/ s.create \/ s.create_new)
    THEN FlagsErr("EINVAL")
    ELSE FlagsOk(CreationBits(s))
creation_mode(s) ==
    IF \/ ~s.write /\ ~s.append /\ (s.truncate \/ s.create \/ s.create_new)
       \/ s.append /\ s.truncate /\ ~s.create_new
    THEN FlagsErr("EINVAL")
    ELSE FlagsOk(CreationBits(s))

\* util::cstr: a path with a NUL byte in it is not a C string
cstr(path) == IF path = "nul" THEN "InvalidInput" ELSE "Ok"
Paths == {"plain", "nul"}

\* Opener::openat up to `op.await`: `self.access_mode()? |
\* self.creation_mode()?` is evaluated first, then Op::openat (cstr(path)?,
\* Op::submit_with)
Opener_openat(path, out) ==
    LET s == opener
        a == access_mode(s)
        c == creation_mode(s)
        early == IF a.err # "none" THEN a.err
                 ELSE IF c.err # "none" THEN c.err
                 ELSE IF cstr(path) # "Ok" THEN cstr(path)
                 ELSE "Ok"
    IN  /\ ~parked
        /\ IF early # "Ok"
           THEN /\ out = "ok"
                /\ lastCall' = [NoRet EXCEPT !.call = "openat", !.res = early]
                /\ UNCHANGED <<driverVars>>
           ELSE /\ submit_with_data("openat", out)
                /\ lastCall' = [NoRet EXCEPT
                        !.call = "openat",
                        !.args = <<a.bits \cup c.bits>>,
                        !.full = is_full(sq),
                        !.res = IF is_full(sq)
                                THEN UringInner_submit(Drv, AnswersOf(out)).res
                                ELSE "Ok"]
        /\ UNCHANGED <<ext_arg, compl, opener>>
        /\ UNCHANGED <<taskVars, rtVars>>

\* `op.await`: a poll of the Op; when it is Ready the owner has the
\* Completion, whose result is Err or Ok(MaybeFd)
await_op(o) ==
    /\ poll_op(o)
    /\ compl' = IF handle'[o].data THEN compl
                ELSE LET l == slab[handle[o].index] IN
                     [compl EXCEPT ![o] =
                         [st |-> IF l.res = "Ok" THEN "held" ELSE "err",
                          is_fd |-> l.is_fd, closes |-> 0]]
    /\ lastCall' = NoRet
    /\ UNCHANGED <<ext_arg, opener>>
    /\ UNCHANGED <<taskVars, rtVars>>

\* MaybeFd::into_inner: the number is taken and the value forgotten
\* (a variant that lets the value drop)
MaybeFd_into_inner_drops(v) ==
    [v EXCEPT !.st = "consumed",
              !.closes = IF MaybeFd_drop(v.is_fd) THEN @ + 1 ELSE @]
MaybeFd_into_inner(v) == [v EXCEPT !.st = "consumed"]

\* the owner of a Completion consumes its MaybeFd (as openat does with
\* `completion.meta.result?.into_inner()`) ...
owner_into_inner(o) ==
    /\ compl[o].st = "held"
    /\ compl' = [compl EXCEPT ![o] = MaybeFd_into_inner(@)]
    /\ lastCall' = NoRet
    /\ UNCHANGED <<driverVars, ext_arg, opener>>
    /\ UNCHANGED <<taskVars, rtVars>>

\* ... or lets it go out of scope: impl Drop for MaybeFd
owner_drop(o) ==
    /\ compl[o].st = "held"
    /\ compl' = [compl EXCEPT ![o] =
                    [@ EXCEPT !.st = "dropped",
                              !.closes = IF MaybeFd_drop(compl[o].is_fd)
                                         THEN @ + 1 ELSE @]]
    /\ lastCall' = NoRet
    /\ UNCHANGED <<driverVars, ext_arg, opener>>
    /\ UNCHANGED <<taskVars, rtVars>>

(***************************************************************************)
(* The runtime: Runtime::block_on, spawn, and the futures it polls.  A    *)
(* future is the top-level one (0) or a spawned task; a poll of a future  *)
(* is a sequence of steps (submit an Op, poll it, drop it, spawn, wake    *)
(* itself) that ends by returning Pending or Ready.  A future holds at    *)
(* most one Op at a time.  The references of a task are the subject of    *)
(* Spec; here a task's state word only moves through its lifecycle bits.  *)
(***************************************************************************)
Futs == 0..MaxTasks
TaskIds == 1..MaxTasks
\* by: the future whose poll spawned the task; pended: a poll of the task
\* has returned Pending
NoFut == [st |-> "none", state |-> 0, op |-> 0, by |-> 0, pended |-> FALSE]

\* `let mut max_round = tasks.len() * 2;` opens a drain pass over queue q
NewPass(q) == [len |-> Len(q), runs |-> 0]

InitRuntime ==
    /\ rpc = "new"
    /\ tasks = <<>>
    /\ max_round = 0
    /\ pass = NewPass(<<>>)
    /\ shouldPoll = FALSE
    /\ running = None
    /\ fut = [f \in Futs |-> NoFut]
    /\ nested = FALSE

\* the positions of block_on at which a future is being polled
RunPcs == {"drain_run", "main_run", "fdrain_run"}
\* CURRENT.is_set(): between CURRENT.set(&self.context, ..) and its return
CURRENT_is_set ==
    rpc \in {"drain", "drain_run", "check", "main_run", "fdrain", "fdrain_run",
             "submit", "park"}

\* block_on's assert!(!CURRENT.is_set(), ..)
\* (a variant without the assertion)
block_on_assert_skipped(is_set) == TRUE
block_on_assert(is_set) == ~is_set

\* the part of the runtime a wake-up changes
Rt == [fut |-> fut, tasks |-> tasks, shouldPoll |-> shouldPoll]
SetRt(c) ==
    /\ fut' = c.fut
    /\ tasks' = c.tasks
    /\ shouldPoll' = c.shouldPoll

\* the run queue (TaskQueue): push puts a task behind the ones queued, pop
\* takes the one queued first
\* (a variant of push that puts the task in front)
TaskQueue_push_front(q, g) == <<g>> \o q
TaskQueue_push(q, g) == Append(q, g)
TaskQueue_pop(q) == [task |-> Head(q), rest |-> Tail(q)]

\* the wakers the driver woke, in order: the waker of the top-level future
\* (dummy_waker) sets the poll flag; the waker of a task calls
\* transition_to_notified and pushes the task on Submit
RECURSIVE Wake(_, _)
Wake(c, ws) ==
    IF ws = <<>> THEN c
    ELSE LET owners == {f \in Futs : c.fut[f].op = Head(ws)} IN
         IF owners = {} THEN Wake(c, Tail(ws))
         ELSE LET f == CHOOSE g \in owners : TRUE
                  curr == c.fut[f].state
              IN  Wake(IF f = 0
                       THEN [c EXCEPT !.shouldPoll = TRUE]
                       ELSE [c EXCEPT
                               !.fut[f].state = transition_to_notified_next(curr),
                               !.tasks = IF transition_to_notified_action(curr) = "Submit"
                                         THEN TaskQueue_push(@, f) ELSE @],
                       Tail(ws))

\* the length of the run queue, twice: `tasks.len() * 2`
\* (a variant with no budget at all)
MaxRound_zero(q) == 0
MaxRound(q) == Len(q) * 2

\* Runtime::block_on up to the first drain: the assertion, CURRENT.set,
\* set_poll, max_round
block_on(is_set) ==
    /\ nested' = (nested \/ is_set)
    /\ IF block_on_assert(is_set)
       THEN /\ shouldPoll' = TRUE
            /\ fut' = [fut EXCEPT ![0] = [NoFut EXCEPT !.st = "live"]]
            /\ max_round' = MaxRound(tasks)
            /\ pass' = NewPass(tasks)
            /\ rpc' = "drain"
            /\ running' = None
            /\ UNCHANGED tasks
       ELSE /\ rpc' = "panicked"
            /\ UNCHANGED <<tasks, max_round, pass, shouldPoll, running, fut>>
    /\ UNCHANGED <<taskVars, driverVars, callVars>>

\* block_on is called on a runtime just built
block_on_enter ==
    /\ rpc = "new"
    /\ block_on(CURRENT_is_set)

\* a future being polled calls block_on (of a runtime it built)
block_on_nested ==
    /\ rpc \in RunPcs
    /\ ~nested
    /\ block_on(CURRENT_is_set)

\* `while let Some(t) = tasks.pop() { t.run(); ..`: the task is popped and
\* its run begins with transition_to_running
pop_task ==
    /\ rpc \in {"drain", "fdrain"}
    /\ tasks # <<>>
    /\ LET g == TaskQueue_pop(tasks).task IN
        /\ tasks' = TaskQueue_pop(tasks).rest
        /\ running' = g
        /\ fut' = [fut EXCEPT ![g].state = transition_to_running_next(@)]
    /\ rpc' = IF rpc = "drain" THEN "drain_run" ELSE "fdrain_run"
    /\ pass' = [pass EXCEPT !.runs = @ + 1]
    /\ UNCHANGED <<max_round, shouldPoll, nested>>
    /\ UNCHANGED <<taskVars, driverVars, callVars>>

\* the queue is empty: the drain loop ends; the last drain is followed by
\* `return t`
drain_empty ==
    /\ rpc \in {"drain", "fdrain"}
    /\ tasks = <<>>
    /\ rpc' = IF rpc = "drain" THEN "check" ELSE "returned"
    /\ UNCHANGED <<tasks, max_round, pass, shouldPoll, running, fut, nested>>
    /\ UNCHANGED <<taskVars, driverVars, callVars>>

\* `if max_round == 0 { break }`
\* (a variant that never breaks)
max_round_spent_never(mr) == FALSE
max_round_spent(mr) == mr = 0

\* the poll of future f returns `res`: a task goes through
\* transition_to_idle (and is pushed again on OkNotified) or
\* transition_to_complete, and the drain loop counts the round; the
\* top-level future returns to the should_poll loop or starts the last drain
EndPoll(c, f, res) ==
    /\ running' = None
    /\ IF f = 0
       THEN /\ SetRt(IF res = "Ready" THEN [c EXCEPT !.fut[0].st = "done"] ELSE c)
            /\ rpc' = IF res = "Ready" THEN "fdrain" ELSE "check"
            /\ max_round' = IF res = "Ready" THEN MaxRound(c.tasks) ELSE max_round
            /\ pass' = IF res = "Ready" THEN NewPass(c.tasks) ELSE pass
       ELSE /\ LET curr == c.fut[f].state IN
               SetRt(IF res = "Ready"
                     THEN [c EXCEPT !.fut[f].state = fetch_xor_delta(curr),
                                    !.fut[f].st = "done"]
                     ELSE [c EXCEPT
                             !.fut[f].state = transition_to_idle_next(curr),
                             !.fut[f].pended = TRUE,
                             !.tasks = IF transition_to_idle_action(curr) = "OkNotified"
                                       THEN TaskQueue_push(@, f) ELSE @])
            /\ rpc' = IF max_round_spent(max_round)
                      THEN (IF rpc = "drain_run" THEN "check" ELSE "returned")
                      ELSE (IF rpc = "drain_run" THEN "drain" ELSE "fdrain")
            /\ max_round' = IF max_round = 0 THEN 0 ELSE max_round - 1
            /\ pass' = pass

Polling(f) == running = f /\ rpc \in RunPcs

\* the future submits an operation: Op::submit_with
fut_submit(f, t, out) ==
    /\ Polling(f)
    /\ fut[f].op = 0
    /\ submit_with_data(t, out)
    /\ SetRt(Wake([Rt EXCEPT !.fut[f].op =
                        IF handle'[NextOp].alive = "live" THEN NextOp ELSE 0],
                  woken'))
    /\ UNCHANGED <<rpc, max_round, pass, running, nested>>
    /\ UNCHANGED <<taskVars, callVars>>

\* the future polls its Op: Pending ends the poll of the future, Ready
\* hands it the completion
fut_poll_op(f) ==
    /\ Polling(f)
    /\ fut[f].op # 0
    /\ poll_op(fut[f].op)
    /\ IF handle'[fut[f].op].data
       THEN EndPoll(Rt, f, "Pending")
       ELSE UNCHANGED <<rpc, tasks, max_round, pass, shouldPoll, running, fut>>
    /\ UNCHANGED nested
    /\ UNCHANGED <<taskVars, callVars>>

\* the future drops its Op
fut_drop_op(f, out) ==
    /\ Polling(f)
    /\ fut[f].op # 0
    /\ drop_op(fut[f].op, out)
    /\ SetRt(Wake([Rt EXCEPT !.fut[f].op = 0], woken'))
    /\ UNCHANGED <<rpc, max_round, pass, running, nested>>
    /\ UNCHANGED <<taskVars, callVars>>

\* spawn: a new task, pushed on the run queue of the current context
spawn(f) ==
    /\ Polling(f)
    /\ \E g \in TaskIds :
        /\ fut[g].st = "none"
        /\ \A h \in TaskIds : h < g => fut[h].st # "none"
        /\ fut' = [fut EXCEPT ![g] = [st |-> "live", state |-> INITIAL_STATE, op |-> 0,
                                       by |-> f, pended |-> FALSE]]
        /\ tasks' = TaskQueue_push(tasks, g)
    /\ UNCHANGED <<rpc, max_round, pass, shouldPoll, running, nested>>
    /\ UNCHANGED <<taskVars, driverVars, callVars>>

\* the future wakes itself and returns Pending
fut_yield(f) ==
    /\ Polling(f)
    /\ EndPoll(IF f = 0
               THEN [Rt EXCEPT !.shouldPoll = TRUE]
               ELSE [Rt EXCEPT !.fut[f].state = transition_to_notified_next(@)],
               f, "Pending")
    /\ UNCHANGED nested
    /\ UNCHANGED <<taskVars, driverVars, callVars>>

\* the future returns Ready; what it held was dropped before
fut_ready(f) ==
    /\ Polling(f)
    /\ fut[f].op = 0
    /\ EndPoll(Rt, f, "Ready")
    /\ UNCHANGED nested
    /\ UNCHANGED <<taskVars, driverVars, callVars>>

\* `while should_poll()`: the flag is taken and the top-level future polled
main_poll ==
    /\ rpc = "check"
    /\ shouldPoll
    /\ shouldPoll' = FALSE
    /\ running' = 0
    /\ rpc' = "main_run"
    /\ UNCHANGED <<tasks, max_round, pass, fut, nested>>
    /\ UNCHANGED <<taskVars, driverVars, callVars>>

\* should_poll() is false: park if the queue is empty, else Driver::submit
\* (a variant that parks whatever the queue holds)
idle_check_parks ==
    /\ rpc = "check"
    /\ ~shouldPoll
    /\ rpc' = "park"
    /\ UNCHANGED <<tasks, max_round, pass, shouldPoll, running, fut, nested>>
    /\ UNCHANGED <<taskVars, driverVars, callVars>>
idle_check ==
    /\ rpc = "check"
    /\ ~shouldPoll
    /\ rpc' = IF tasks = <<>> THEN "park" ELSE "submit"
    /\ UNCHANGED <<tasks, max_round, pass, shouldPoll, running, fut, nested>>
    /\ UNCHANGED <<taskVars, driverVars, callVars>>

\* `let _ = self.driver.submit();` and the loop starts over
loop_submit(out) ==
    /\ rpc = "submit"
    /\ driver_submit(out)
    /\ LET c == Wake(Rt, woken') IN
        /\ SetRt(c)
        /\ max_round' = MaxRound(c.tasks)
        /\ pass' = NewPass(c.tasks)
    /\ rpc' = "drain"
    /\ UNCHANGED <<handle, parked, running, nested>>
    /\ UNCHANGED <<taskVars, callVars>>

\* `let _ = self.driver.park();`: blocks ...
loop_park ==
    /\ rpc = "park"
    /\ park_enter
    /\ UNCHANGED <<handle, rtVars>>
    /\ UNCHANGED <<taskVars, callVars>>

\* ... until an event is there, ticks, and the loop starts over
loop_unpark ==
    /\ rpc = "park"
    /\ park_wake
    /\ LET c == Wake(Rt, woken') IN
        /\ SetRt(c)
        /\ max_round' = MaxRound(c.tasks)
        /\ pass' = NewPass(c.tasks)
    /\ rpc' = "drain"
    /\ UNCHANGED <<handle, running, nested>>
    /\ UNCHANGED <<taskVars, callVars>>

\* the runtime is dropped after block_on returned.  Its context goes
\* first: every task still queued is dropped, and with it the Op it holds
queue_drop(out) ==
    /\ rpc = "returned"
    /\ tasks # <<>>
    /\ LET g == Head(tasks) IN
        /\ tasks' = Tail(tasks)
        /\ fut' = [fut EXCEPT ![g].st = "dropped", ![g].op = 0]
        /\ IF fut[g].op # 0
           THEN drop_op(fut[g].op, out)
           ELSE out = "ok" /\ UNCHANGED driverVars
    /\ UNCHANGED <<rpc, max_round, pass, shouldPoll, running, nested>>
    /\ UNCHANGED <<taskVars, callVars>>

\* ... then its driver: no destructor looks at the slab
driver_drop ==
    /\ rpc = "returned"
    /\ tasks = <<>>
    /\ rpc' = "dropped"
    /\ UNCHANGED <<tasks, max_round, pass, shouldPoll, running, fut, nested>>
    /\ UNCHANGED <<taskVars, driverVars, callVars>>

vars == <<taskVars, driverVars, rtVars, callVars>>

\* no call was made yet; the specifications that never park with a timeout
\* do not read ext_arg
InitCalls ==
    /\ ext_arg = FALSE
    /\ lastCall = NoRet
    /\ compl = [o \in Ops |-> NoCompl]
    /\ opener = Opener_new

Init == InitTask /\ InitDriver /\ InitRuntime /\ InitCalls

Next ==
    \/ pop_and_run
    \/ transition_to_running
    \/ poll_pending
    \/ transition_to_idle
    \/ reschedule_ref_inc
    \/ reschedule_push
    \/ transition_to_complete
    \/ task_drop
    \/ waker_clone
    \/ \E w \in BagToSet(wakers) : waker_wake(w)
    \/ \E w \in BagToSet(wakers) : transition_to_notified(w)
    \/ \E w \in BagToSet(wakers) : waker_push(w)
    \/ \E w \in BagToSet(wakers) : waker_drop(w)
    \/ join_poll
    \/ join_drop
    \/ fetch_update_load
    \/ fetch_update_cas
    \/ join_result
    \/ join_ref_dec

Spec == Init /\ [][Next]_vars

\* Spec with holders of a waker clone that also try
\* transition_to_notified_without_submit
NextNotify ==
    \/ Next
    \/ \E w \in BagToSet(wakers) : without_submit_call(w)
    \/ \E w \in BagToSet(wakers) : transition_to_notified_without_submit(w)
    \/ \E w \in BagToSet(wakers) : without_submit_return(w)

SpecNotify == Init /\ [][NextNotify]_vars

NextDriver ==
    \/ \E t \in OpTypes, out \in SubmitOutcomes : caller_submit_with(t, out)
    \/ \E o \in Ops : caller_poll_op(o)
    \/ \E o \in Ops : caller_poll_taken(o)
    \/ \E o \in Ops, out \in SubmitOutcomes : caller_drop_op(o, out)
    \/ \E out \in SubmitOutcomes : caller_submit(out)
    \/ caller_park
    \/ caller_unpark
    \/ \E k \in inflight, res \in KernelResults : kernel_complete(k, res)

SpecDriver == Init /\ [][NextDriver]_vars

\* callers that also make an OpCanceller of an Op and use it
NextCancel ==
    \/ NextDriver
    \/ \E o \in Ops : caller_op_canceller(o)
    \/ \E o \in Ops, out \in SubmitOutcomes : caller_cancel(o, out)

SpecCancel == Init /\ [][NextCancel]_vars

NextRuntime ==
    \/ block_on_enter
    \/ block_on_nested
    \/ pop_task
    \/ drain_empty
    \/ \E f \in Futs, t \in OpTypes, out \in SubmitOutcomes : fut_submit(f, t, out)
    \/ \E f \in Futs : fut_poll_op(f)
    \/ \E f \in Futs, out \in SubmitOutcomes : fut_drop_op(f, out)
    \/ \E f \in Futs : spawn(f)
    \/ \E f \in Futs : fut_yield(f)
    \/ \E f \in Futs : fut_ready(f)
    \/ main_poll
    \/ idle_check
    \/ \E out \in SubmitOutcomes : loop_submit(out)
    \/ loop_park
    \/ loop_unpark
    \/ \E out \in SubmitOutcomes : queue_drop(out)
    \/ driver_drop
    \/ \E k \in inflight, res \in KernelResults : kernel_complete(k, res)

SpecRuntime == Init /\ [][NextRuntime]_vars

\* a run in which task 1 wakes itself and returns Pending every time it
\* runs, while the top-level future and task 2 wait for operations.  The
\* thread of the runtime keeps running, and the kernel does not fail every
\* submit call of the loop; nothing is assumed of when it completes an
\* operation.
ThreadStep ==
    \/ block_on_enter
    \/ pop_task
    \/ drain_empty
    \/ \E f \in Futs \ {1} : fut_submit(f, "openat", "ok")
    \/ \E f \in Futs \ {1} : fut_poll_op(f)
    \/ \E f \in Futs \ {1} : fut_drop_op(f, "ok")
    \/ spawn(0)
    \/ fut_yield(1)
    \/ \E f \in Futs \ {1} : fut_ready(f)
    \/ main_poll
    \/ idle_check
    \/ \E out \in SubmitOutcomes : loop_submit(out)
    \/ loop_park
    \/ loop_unpark
NextSpin ==
    \/ ThreadStep
    \/ \E k \in inflight : kernel_complete(k, 3)
SpecSpin ==
    Init /\ [][NextSpin]_vars /\ WF_vars(ThreadStep) /\ SF_vars(loop_submit("ok"))

\* code that submits, polls and drops operations and flushes the queue, and
\* the kernel
NextCalls ==
    \/ \E out \in SubmitOutcomes : call_submit_with("openat", out)
    \/ \E o \in Ops : call_poll_op(o)
    \/ \E o \in Ops, out \in SubmitOutcomes : call_drop_op(o, out)
    \/ \E answers \in KernelAnswers : call_submit(answers)
    \/ \E k \in inflight, res \in KernelResults \cup {0}, fl \in CqeFlags :
            kernel_completes(k, res, fl)

SpecCalls == Init /\ [][NextCalls]_vars

\* the driver is built on a kernel with or without extended wait arguments
InitPark ==
    /\ InitTask /\ InitDriver /\ InitRuntime
    /\ ext_arg \in BOOLEAN
    /\ lastCall = NoRet
    /\ compl = [o \in Ops |-> NoCompl]
    /\ opener = Opener_new

\* code that submits and polls operations and parks with a timeout, and the
\* kernel
NextPark ==
    \/ \E out \in SubmitOutcomes : call_submit_with("openat", out)
    \/ \E o \in Ops : call_poll_op(o)
    \/ \E out \in SubmitOutcomes : park_timeout_enter(out)
    \/ \E w \in {"ok", "ETIME", "EINTR"} : park_timeout_wake(w)
    \/ \E k \in inflight, res \in KernelResults : kernel_completes(k, res, 0)
    \/ kernel_timeout

SpecPark == InitPark /\ [][NextPark]_vars

\* files are opened with every combination of the open options, other
\* operations are submitted, and the owners of the completions consume or
\* drop what they get; the kernel accepts every submit call
NextOpen ==
    \/ \E f \in OpenerFlags, v \in BOOLEAN : Opener_set(f, v)
    \/ \E path \in Paths : Opener_openat(path, "ok")
    \/ call_submit_with("close", "ok")
    \/ call_submit(<<"ok">>)
    \/ \E o \in Ops : await_op(o)
    \/ \E o \in Ops : owner_into_inner(o)
    \/ \E o \in Ops : owner_drop(o)
    \/ \E k \in inflight, res \in KernelResults : kernel_completes(k, res, 0)
SpecOpen == Init /\ [][NextOpen]_vars

(***************************************************************************)
(* Properties of the task state word.                                      *)
(***************************************************************************)
\* enqueue obligations returned and not yet carried out
Outstanding ==
    CopiesIn(Waker("push", 0), wakers)
    + (IF opc \in {"resched_inc", "resched_push"} THEN 1 ELSE 0)

\* live holders of a reference to the task: run-queue entries, the task the
\* runtime thread popped, the new task it re-schedules, the join handle and
\* the waker clones
Holders ==
    queued
    + (IF opc \in {"run_cas", "poll", "idle_cas", "resched_inc",
                   "resched_push", "drop_ref"} THEN 1 ELSE 0)
    + (IF opc = "resched_push" THEN 1 ELSE 0)
    + (IF jpc \in {"held", "load", "cas", "ret", "dec"}
          /\ ~(jpc = "ret" /\ jop = "drop_join_handle_fast" /\ jres.kind = "Ok")
       THEN 1 ELSE 0)
    + BagCardinality(wakers)

\* C1: between two consecutive transition_to_running calls at most one
\* enqueue obligation (a Submit or an OkNotified result) is produced, whatever
\* the number of concurrent transition_to_notified calls, and the run queue
\* never holds two entries for the task.
NoDuplicateEnqueue ==
    /\ obl <= 1
    /\ queued + Outstanding <= 1

\* C1 witness: two concurrent wakers, one was told Submit, the other DoNothing
NoDuplicateEnqueueWitness ==
    /\ obl = 1
    /\ CopiesIn(Waker("push", 0), wakers) = 1
    /\ CopiesIn(Waker("dec", 0), wakers) = 1

\* C2: a wake that took effect on a task that is not complete is not lost:
\* NOTIFIED stays set, and the task is either still running (its
\* transition_to_idle will return OkNotified) or has exactly one run pending:
\* a run-queue entry, an enqueue obligation in the hands of its receiver, or
\* the popped task about to call transition_to_running.
NoLostWakeup ==
    (pendingWake /\ ~is_complete(state)) =>
        /\ is_notified(state)
        /\ \/ is_running(state)
           \/ queued + Outstanding + (IF opc = "run_cas" THEN 1 ELSE 0) = 1

\* C2 witness: the wake arrived during the run, transition_to_idle returned
\* OkNotified and the runtime thread is re-scheduling the task
NoLostWakeupWitness ==
    /\ pendingWake
    /\ opc = "resched_push"
    /\ is_idle(state)

\* C5: the ref-count field equals the number of live holders, and it reaches
\* zero only in a ref_dec that reports the last reference.
RefCountInvariant ==
    /\ [](ref_count(state) = Holders)
    /\ [][(ref_count(state) >= 1 /\ ref_count(state') = 0)
             => deallocs' = deallocs + 1]_vars

\* C5 witness: the join handle took the fast path and two waker clones live
RefCountWitness ==
    /\ BagCardinality(wakers) = 2
    /\ jpc = "gone"
    /\ ref_count(state) = 3

\* C6: the references of a task are released with exactly one ref_dec
\* reporting the last reference: never two, and one once every holder is
\* gone; no asserted precondition fails on the way.
ExactlyOnceDealloc ==
    /\ deallocs <= 1
    /\ (Holders = 0) <=> (deallocs = 1)
    /\ ~failed

\* C6 witness: every holder is gone, the join handle having been dropped
\* after the task completed
ExactlyOnceDeallocWitness ==
    /\ Holders = 0
    /\ deallocs = 1
    /\ is_complete(state)
    /\ is_join_interested(state)

\* C7: no step clears COMPLETE.
CompleteMonotonic == [][is_complete(state) => is_complete(state')]_vars

\* C7 witness: a join-bit transition and a wake acted on the complete task
CompleteMonotonicWitness ==
    /\ is_complete(state)
    /\ jpc = "ret"
    /\ jres.kind = "Err"
    /\ CopiesIn(Waker("dec", 0), wakers) = 1

JoinBitOps == {"unset_join_interested", "set_join_waker", "unset_waker"}

JoinBitApplied(op, s) ==
    CASE op = "unset_join_interested" -> ClearBit(s, JOIN_INTEREST)
      [] op = "set_join_waker" -> SetBit(s, JOIN_WAKER)
      [] op = "unset_waker" -> ClearBit(s, JOIN_WAKER)

\* C8: a join-bit transition that returns Err returns a snapshot with COMPLETE
\* set and leaves the word as it is, COMPLETE being set in it; one that
\* returns Ok found the task not complete and changed its own bit only.
JoinBitTransitions ==
    [][(jpc = "cas" /\ jpc' = "ret" /\ jop \in JoinBitOps) =>
          IF jres'.kind = "Err"
          THEN state' = state /\ is_complete(state) /\ is_complete(jcurr)
          ELSE /\ jres'.kind = "Ok"
               /\ ~is_complete(state)
               /\ state' # state
               /\ state' = JoinBitApplied(jop, state)]_vars

\* C8 witness: a join-bit transition loaded a word without COMPLETE and
\* returned Err all the same
JoinBitTransitionsWitness ==
    /\ jpc = "ret"
    /\ jop \in JoinBitOps
    /\ jres.kind = "Err"
    /\ jres.raced

(***************************************************************************)
(* Descriptors.  fds[o] counts, for operation o, the descriptors the       *)
(* kernel returned, those handed to the owner inside a Completion and      *)
(* those closed by a MaybeFd's drop.                                       *)
(***************************************************************************)
\* the places of the driver that hold the Ok result of operation o, a
\* descriptor not yet disposed of: an event not yet ticked, a Completed slot
FdInCq(o) ==
    {n \in 1..Len(cq) : cq[n].op = o /\ cq[n].res >= 0 /\ ~IsReservedTag(cq[n].tag)
                        /\ RET_IS_FD(handle[o].type)}
FdInSlab(o) ==
    {i \in Slots : slab[i].st = "Completed" /\ slab[i].op = o /\ slab[i].res = "Ok"
                   /\ slab[i].is_fd}
FdOpen(o) == fds[o].created - fds[o].handed - fds[o].closed

\* C3: every descriptor the kernel returns for an operation is disposed of
\* exactly once.  It is never both handed to the owner and closed, and never
\* closed twice (handed + closed never exceeds what the kernel returned);
\* and a descriptor not yet disposed of is never without an owner: it is in
\* an event that tick will deliver to the operation's own slot, or in the
\* Completed slot of an Op that is still alive and whose poll or drop will
\* take it.
DescriptorOwnership ==
    /\ ~ub
    /\ \A o \in Ops :
        /\ fds[o].created <= 1
        /\ fds[o].handed + fds[o].closed <= fds[o].created
        /\ FdOpen(o) = Cardinality(FdInCq(o)) + Cardinality(FdInSlab(o))
        /\ \A n \in FdInCq(o) :
              /\ cq[n].tag \in Slots
              /\ slab[cq[n].tag].op = o
              /\ slab[cq[n].tag].st \in {"Submitted", "Waiting", "Ignored"}
              /\ slab[cq[n].tag].is_fd
        /\ \A i \in FdInSlab(o) :
              handle[o].alive = "live" /\ handle[o].index = i

\* the Op was dropped in flight and pushed its cancel, the kernel returned
\* a descriptor all the same, and the tick that met the Ignored slot closed it
DescriptorOwnershipWitness ==
    \E o \in Ops :
        /\ handle[o].alive = "dropped"
        /\ handle[o].cancel
        /\ fds[o].created = 1
        /\ fds[o].closed = 1
        /\ fds[o].handed = 0

(***************************************************************************)
(* The driver with the kernel and the runtime doing their part: the kernel *)
(* reports a completion for every operation it was handed, and the runtime *)
(* keeps calling Driver::submit (or returns from park) with success.       *)
(***************************************************************************)
FairDriver ==
    /\ SpecDriver
    /\ WF_vars(\E k \in inflight, res \in KernelResults : kernel_complete(k, res))
    /\ WF_vars(caller_submit("ok"))
    /\ WF_vars(caller_unpark)

\* the slab slot operation o occupies
Allocated(o) == \E i \in Slots : slab[i].st # "Vacant" /\ slab[i].op = o
\* the Op of o was dropped before its poll returned the completion
DroppedUnobserved(o) == handle[o].alive = "dropped" /\ handle[o].index # USIZE_MAX
\* the event of operation o waits in the completion queue
EventOf(o) == \E n \in 1..Len(cq) : cq[n].op = o /\ ~IsReservedTag(cq[n].tag)

\* C4: the slot of an Op dropped before poll observed its completion does
\* not stay allocated forever.  A drop that finds the slot Completed
\* releases it during the drop; any other drop leaves it Ignored (or
\* released, when the drop's own flush ticked its event), an Ignored slot
\* changes only by being released (and possibly handed to a new operation
\* by the same call), by a tick that consumes the event of its operation;
\* and with a fair kernel and a runtime that keeps ticking, the slot of
\* every dropped Op is eventually released.
SlotReleaseLiveness ==
    /\ [][\A o \in Ops :
            (handle[o].alive = "live" /\ handle'[o].alive = "dropped"
                    /\ handle[o].index # USIZE_MAX) =>
                LET i == handle[o].index IN
                IF slab[i].st = "Completed"
                THEN slab'[i] = Vacant
                ELSE slab'[i] = Vacant \/ slab'[i] = [slab[i] EXCEPT !.st = "Ignored"]]_vars
    /\ [][\A i \in Slots, o \in Ops :
            (slab[i].st = "Ignored" /\ slab[i].op = o /\ slab'[i] # slab[i]) =>
                /\ slab'[i].op # o
                /\ ~Allocated(o)'
                /\ EventOf(o) /\ ~EventOf(o)']_vars
    /\ \A o \in Ops : (DroppedUnobserved(o) /\ Allocated(o)) ~> ~Allocated(o)

\* an Op was dropped in flight, its cancel pushed, and a later tick met the
\* completion and released the Ignored slot
SlotReleaseLivenessWitness ==
    \E o \in Ops :
        /\ DroppedUnobserved(o)
        /\ handle[o].cancel
        /\ ~Allocated(o)
        /\ \A k \in inflight : k.op # o
        /\ \A n \in 1..Len(cq) : cq[n].op # o

(***************************************************************************)
(* The runtime's teardown and its entry.                                   *)
(***************************************************************************)
\* the runtime and its driver are destroyed: the runtime was dropped and no
\* Op holds the driver any more
TornDown == rpc = "dropped" /\ \A o \in Ops : handle[o].alive # "live"
SlabEmpty == \A i \in Slots : slab[i].st = "Vacant"

\* C9: whenever the driver is torn down its operation slab is empty: every
\* operation submitted while block_on ran has had its slot freed before the
\* runtime and its driver are destroyed.
TeardownInvariant == TornDown => SlabEmpty

\* C10: a call of block_on while a runtime context is set on the thread
\* panics and changes nothing of the active runtime: not the run queue, not
\* the poll flag, no future is polled, and the driver is not called.
NestedEntryRejected ==
    [][(~nested /\ nested') =>
          /\ CURRENT_is_set
          /\ rpc' = "panicked"
          /\ UNCHANGED <<tasks, max_round, pass, shouldPoll, running, fut, driverVars>>]_vars

\* the nested call panicked while the active runtime had a task queued, the
\* poll flag down and an operation pending in the driver
NestedEntryRejectedWitness ==
    /\ nested
    /\ rpc = "panicked"
    /\ tasks # <<>>
    /\ ~shouldPoll
    /\ ~SlabEmpty

\* what the runtime relies on: no event reaches a vacant slot, a task popped
\* from the queue is idle and notified, a task in the queue is there once
RuntimeSane ==
    /\ ~ub
    /\ \A g \in TaskIds :
        /\ Cardinality({n \in 1..Len(tasks) : tasks[n] = g}) <= 1
        /\ (\E n \in 1..Len(tasks) : tasks[n] = g) =>
              rpc \in {"returned", "dropped"} \/ (is_notified(fut[g].state) /\ is_idle(fut[g].state))
        /\ running = g => is_running(fut[g].state)

(***************************************************************************)
(* The calls into the driver.                                              *)
(***************************************************************************)
\* the step is a submit_with that found the submission queue full
SubmitWithOnFull == lastCall'.call = "submit_with" /\ Len(sq) = SqCap

\* the step accepted operation o: its Op was returned, its entry, tagged
\* with the slot reserved for it, is the one entry of the queue, and what
\* the queue held was flushed to the kernel
Accepted(o) ==
    /\ handle[o].alive = "none"
    /\ handle'[o].alive = "live"
    /\ LET i == handle'[o].index IN
        /\ i \in Slots
        /\ slab'[i].st = "Submitted" /\ slab'[i].op = o
        /\ \A p \in Ops \ {o} : handle[p].alive = "live" => handle[p].index # i
        /\ sq' = <<SqOp(i, o)>>
    /\ \A n \in 1..Len(sq) :
          IF sq[n].kind = "op"
          THEN \E k \in inflight' : k.tag = sq[n].tag /\ k.op = sq[n].op
          ELSE \E m \in 1..Len(cq') : cq'[m].tag = CANCEL_USERDATA

\* C11 as stated: a submit_with that finds the submission queue full flushes
\* once, pushes the new entry tagged with its freshly reserved slab index,
\* and surfaces no error.
SubmitOverCapacityNoError ==
    [][SubmitWithOnFull =>
          /\ lastCall'.res = "Ok"
          /\ \E o \in Ops : Accepted(o)]_vars

\* C11 as amended: a submit_with that finds the submission queue full makes
\* one flush (UringInner::submit, which rides out transient errors).  If the
\* flush succeeds the new entry is pushed, tagged with its freshly reserved
\* slab index, and the Op returned; if the kernel answers the flush with an
\* error that is not transient, that error is returned to the caller and no
\* slot is reserved and no entry pushed.
SubmitOverCapacity ==
    [][SubmitWithOnFull =>
          /\ lastCall'.full
          /\ lastCall'.kernel # <<>>
          /\ LET fin == lastCall'.kernel[Len(lastCall'.kernel)] IN
             IF fin = "ok"
             THEN /\ lastCall'.res = "Ok"
                  /\ \E o \in Ops : Accepted(o)
             ELSE /\ lastCall'.res = fin
                  /\ fin \notin {"EAGAIN", "EBUSY"}
                  /\ UNCHANGED <<slab, sq, inflight, handle>>]_vars

\* the queue was full, the flush met a transient error, ticked, went through,
\* and the new entry is alone in the queue
SubmitOverCapacityWitness ==
    /\ lastCall.call = "submit_with"
    /\ lastCall.full
    /\ lastCall.kernel = <<"EBUSY", "ok">>
    /\ lastCall.res = "Ok"
    /\ Len(sq) = 1
    /\ inflight # {}

\* C13: UringInner::submit never returns EAGAIN or EBUSY: on either it ticks
\* (one tick per transient answer) and calls the kernel again; it returns Ok
\* when the kernel accepts the queue, and an error that is not transient as
\* the kernel gave it.  When it returns an error after transient ones, the
\* completion queue was drained on the way and the submission queue is as it
\* was; when it returns Ok the submission queue went to the kernel.
SelfHealingSubmit ==
    /\ [](lastCall.call = "submit" =>
            LET fin == lastCall.kernel[Len(lastCall.kernel)] IN
            /\ lastCall.res \notin {"EAGAIN", "EBUSY"}
            /\ lastCall.res = (IF fin = "ok" THEN "Ok" ELSE fin)
            /\ lastCall.ticks = Len(lastCall.kernel) - 1)
    /\ [][lastCall'.call = "submit" =>
            IF lastCall'.res = "Ok"
            THEN sq' = <<>> /\ cq' = <<>>
            ELSE /\ sq' = sq /\ inflight' = inflight
                 /\ IF lastCall'.ticks > 0 THEN cq' = <<>> ELSE cq' = cq /\ slab' = slab]_vars

\* the kernel answered EBUSY, then EAGAIN, then accepted the queue; a tick on
\* the way completed the slot of an operation
SelfHealingSubmitWitness ==
    /\ lastCall.call = "submit"
    /\ lastCall.kernel = <<"EBUSY", "EAGAIN", "ok">>
    /\ lastCall.res = "Ok"
    /\ lastCall.ticks = 2
    /\ \E i \in Slots : slab[i].st = "Completed"

\* the events of a completion queue that carry the index of a slab slot
SlotEvents(q) == {n \in 1..Len(q) : q[n].tag \in Slots}

\* C12: when the wait of a park with a timeout returns, park_timeout returns
\* Ok whether events are there (operation completions, which its tick
\* processes, or none of them) or, on the extended-wait path, the wait
\* answered ETIME; only another error of the wait is returned.  The tick
\* consumes the whole completion queue, the event of a timeout entry
\* (TIMEOUT_USERDATA) included, and changes only the slots named by the
\* events of operations: a timeout event completes no slot and no lookup
\* goes outside the slab.
ParkTimeoutOutcomes ==
    [][(parked /\ ~parked' /\ lastCall.call = "park_timeout") =>
          LET w == lastCall'.kernel[1] IN
          /\ w = "ETIME" => ext_arg
          /\ IF w \in {"ok", "ETIME"}
             THEN /\ lastCall'.res = "Ok"
                  /\ lastCall'.done = Cardinality(SlotEvents(cq))
                  /\ cq' = <<>>
                  /\ \A i \in Slots :
                        slab'[i] # slab[i] => \E n \in SlotEvents(cq) : cq[n].tag = i
                  /\ ub' = ub
             ELSE /\ lastCall'.res = w
                  /\ UNCHANGED <<slab, cq>>]_vars

\* the legacy path: the timeout elapsed while an operation was still in
\* flight; park_timeout returned Ok with no completion processed and the
\* timeout's event is gone
ParkTimeoutOutcomesWitness ==
    /\ ~ext_arg
    /\ lastCall.call = "park_timeout"
    /\ lastCall.res = "Ok"
    /\ lastCall.done = 0
    /\ ~TimeoutPending
    /\ cq = <<>>
    /\ \E k \in inflight : k.op \in Ops
    /\ \E i \in Slots : slab[i].st = "Waiting"

(***************************************************************************)
(* C14.  A run without operations.                                        *)
(***************************************************************************)
\* so far no future obtained an Op, every task was spawned by the top-level
\* future, and no poll of a task returned Pending
PureRun ==
    /\ ~nested
    /\ \A o \in Ops : handle[o].alive = "none"
    /\ \A g \in TaskIds : fut[g].st # "none" => fut[g].by = 0 /\ ~fut[g].pended

\* C14: in a run in which the top-level future spawns tasks and no future
\* awaits an operation (every task completes on its first run), block_on
\* never reaches park (nor the submit of the cold path), the tasks run in
\* one drain pass, the one after the top-level future is Ready, whose budget
\* covers the queue, and block_on returns with every spawned task run to
\* completion.
PureComputeRun ==
    PureRun =>
        /\ rpc \notin {"park", "submit", "panicked"}
        /\ ~parked
        /\ running \in TaskIds => rpc = "fdrain_run"
        /\ rpc \in {"fdrain", "fdrain_run"} => max_round >= Len(tasks)
        /\ rpc \in {"returned", "dropped"} =>
              /\ fut[0].st = "done"
              /\ tasks = <<>>
              /\ \A g \in TaskIds : fut[g].st \in {"none", "done"}

\* block_on has returned from a run of that kind in which MaxTasks tasks
\* were spawned
PureComputeRunWitness ==
    /\ PureRun
    /\ rpc = "returned"
    /\ \A g \in TaskIds : fut[g].st = "done"

(***************************************************************************)
(* C15.  A task that waits for one operation.                             *)
(***************************************************************************)
\* the number of times future g is in the run queue q
Queued(q, g) == Cardinality({n \in 1..Len(q) : q[n] = g})
\* task g is suspended on slot i: it is not being polled, and the last poll
\* of its Op found slot i unfinished and left its waker there
SuspendedOn(g, i) ==
    /\ fut[g].st = "live"
    /\ running # g
    /\ fut[g].op # 0
    /\ handle[fut[g].op].alive = "live"
    /\ handle[fut[g].op].index = i
    /\ slab[i].st = "Waiting"
\* block_on is under way
InBlockOn == rpc \notin {"new", "returned", "dropped", "panicked"}

IsPrefix(p, q) == Len(p) <= Len(q) /\ SubSeq(q, 1, Len(p)) = p

RejectedOptions(s) ==
    \/ ~s.read /\ ~s.write /\ ~s.append
    \/ ~s.write /\ ~s.append /\ (s.truncate \/ s.create \/ s.create_new)
    \/ s.append /\ s.truncate /\ ~s.create_new

\* C18: a call of openat on an Opener whose options are one of the rejected
\* combinations returns EINVAL, and the call reserves no slab slot, pushes
\* nothing to the submission queue, hands nothing to the kernel and creates
\* no Op.
ValidationPrecedesSubmission ==
    [][(lastCall'.call = "openat" /\ RejectedOptions(opener)) =>
          /\ lastCall'.res = "EINVAL"
          /\ UNCHANGED <<slab, sq, inflight, cq, handle>>]_vars

\* openat has just returned EINVAL for truncate with append and without
\* create_new, while an entry of an earlier call is in the submission queue
ValidationPrecedesSubmissionWitness ==
    /\ lastCall.call = "openat"
    /\ lastCall.res = "EINVAL"
    /\ opener.append /\ opener.truncate /\ ~opener.create_new
    /\ Len(sq) = 1
    /\ \E i \in Slots : slab[i].st = "Vacant"

(***************************************************************************)
(* C17.  The closes a MaybeFd causes.                                     *)
(***************************************************************************)
\* C17: a MaybeFd in its owner's hands has caused no close; once it went
\* out of scope unconsumed it has caused exactly one close if it is marked
\* as a descriptor and none if it is not; once it was consumed with
\* into_inner it has caused none, marked or not.  The step that disposes of
\* it keeps the mark and closes nothing else.
MaybeFdCloseCount ==
    /\ [](\A o \in Ops :
            /\ compl[o].st \in {"none", "err", "held"} => compl[o].closes = 0
            /\ compl[o].st = "consumed" => compl[o].closes = 0
            /\ compl[o].st = "dropped" =>
                  compl[o].closes = IF compl[o].is_fd THEN 1 ELSE 0)
    /\ [][\A o \in Ops :
            (compl[o].st = "held" /\ compl'[o].st # "held") =>
                /\ compl'[o].st \in {"consumed", "dropped"}
                /\ compl'[o].is_fd = compl[o].is_fd
                /\ fds' = fds
                /\ \A p \in Ops \ {o} : compl'[p] = compl[p]]_vars

\* two descriptors were handed out: one was dropped unconsumed and closed
\* once, the other was consumed and not closed
MaybeFdCloseCountWitness ==
    \E o \in Ops, p \in Ops :
        /\ compl[o].st = "dropped" /\ compl[o].is_fd /\ compl[o].closes = 1
        /\ compl[p].st = "consumed" /\ compl[p].is_fd /\ compl[p].closes = 0

(***************************************************************************)
(* C19.  A task that always re-queues itself does not starve the driver.  *)
(***************************************************************************)
\* the event of slot i is in the completion queue and the slot's waker waits
Posted(i) == slab[i].st = "Waiting" /\ \E n \in 1..Len(cq) : cq[n].tag = i
\* the future that waits on slot i has been woken: the top-level future is
\* to be polled, a task is queued or running or done
WokenOn(i) ==
    /\ slab[i].st # "Waiting"
    /\ \A f \in Futs :
          (fut[f].op # 0 /\ handle[fut[f].op].index = i) =>
              IF f = 0 THEN shouldPoll \/ running = 0
              ELSE Queued(tasks, f) = 1 \/ running = f

\* C19: with task 1 re-queuing itself on every run, the budget of a drain
\* pass never exceeds twice the number of tasks, every run of a task in a
\* pass uses one round of it and the run that finds it spent ends the pass;
\* while the top-level future is not done, the loop reaches Driver::submit
\* again and again; and, as long as the top-level future is not done, an
\* event the kernel has posted for a waiting slot is eventually processed,
\* with the future that waits on it woken.
NoIoStarvation ==
    /\ [](max_round <= 2 * MaxTasks)
    /\ [][(rpc \in {"drain_run", "fdrain_run"} /\ running \in TaskIds
            /\ running' = None) =>
              IF max_round = 0
              THEN rpc' \in {"check", "returned"}
              ELSE max_round' = max_round - 1]_vars
    /\ (fut[1].st = "live" /\ rpc \in {"drain", "drain_run", "check", "main_run"})
          ~> (rpc = "submit" \/ fut[0].st = "done")
    /\ \A i \in Slots :
          (fut[1].st = "live" /\ Posted(i)) ~> (WokenOn(i) \/ fut[0].st = "done")

\* task 1 is queued, and task 2 waits on a slot whose event the kernel has
\* posted while the loop is in a drain pass
NoIoStarvationWitness ==
    /\ rpc = "drain"
    /\ Queued(tasks, 1) = 1
    /\ fut[1].pended
    /\ \E i \in Slots : SuspendedOn(2, i) /\ Posted(i)

(***************************************************************************)
(* C20.  The preconditions the state machine asserts.                     *)
(***************************************************************************)
\* C20: in every interleaving of the running thread, the wakers and the
\* join handle, each call finds what it asserts: the word
\* transition_to_running works on is idle and NOTIFIED, the word
\* transition_to_idle works on is RUNNING, transition_to_complete is called
\* on a RUNNING task that is not COMPLETE, every ref_dec about to be made
\* finds a count of at least 1, and the join-bit transitions work on a word
\* with JOIN_INTEREST; no assertion has failed.
AssertionValidity ==
    /\ ~failed
    /\ opc = "run_cas" => is_idle(ocurr) /\ is_notified(ocurr)
    /\ opc = "idle_cas" => is_running(ocurr)
    /\ opc = "poll" => is_running(state) /\ ~is_complete(state)
    /\ opc = "drop_ref" => ref_count(state) >= 1
    /\ jpc = "dec" => ref_count(state) >= 1
    /\ \A w \in BagToSet(wakers) : w.pc \in {"held", "dec"} => ref_count(state) >= 1
    /\ (jpc = "cas" /\ jop \in JoinBitOps) => is_join_interested(jcurr)

\* the thread is in the loop of transition_to_idle with a word read before
\* a waker set NOTIFIED, while the join handle is inside a join-bit
\* transition
AssertionValidityWitness ==
    /\ opc = "idle_cas"
    /\ is_running(ocurr)
    /\ ~is_notified(ocurr)
    /\ is_notified(state)
    /\ jpc = "cas"
    /\ jop \in JoinBitOps
    /\ \E w \in BagToSet(wakers) : w.pc = "dec"

(***************************************************************************)
(* C21.  Completion is one atomic step.                                   *)
(***************************************************************************)
\* C21: no state of the task has RUNNING and COMPLETE set together; the
\* step of transition_to_complete takes a word with RUNNING set and
\* COMPLETE clear to the word with RUNNING clear and COMPLETE set whose
\* NOTIFIED, JOIN_INTEREST, JOIN_WAKER and ref count are the ones the word
\* had at that instant, whatever the wakers and the join handle did before,
\* and hands that new word to its caller.
AtomicCompletion ==
    /\ [](~(is_running(state) /\ is_complete(state)))
    /\ [][(opc = "poll" /\ opc' = "drop_ref") =>
            /\ is_running(state) /\ ~is_complete(state)
            /\ ~is_running(state') /\ is_complete(state')
            /\ is_notified(state') = is_notified(state)
            /\ is_join_interested(state') = is_join_interested(state)
            /\ has_join_waker(state') = has_join_waker(state)
            /\ ref_count(state') = ref_count(state)
            /\ ocurr' = state']_vars

\* the task has just completed while a wake had set NOTIFIED during the run,
\* a waker clone is alive and the join handle has its waker registered
AtomicCompletionWitness ==
    /\ opc = "drop_ref"
    /\ is_complete(state)
    /\ ocurr = state
    /\ is_notified(state)
    /\ has_join_waker(state)
    /\ ref_count(state) >= 3

(***************************************************************************)
(* C22.  The initial word and spawn's push.                               *)
(***************************************************************************)
\* C22: a new task starts with ref count 2, JOIN_INTEREST and NOTIFIED set,
\* RUNNING, COMPLETE and JOIN_WAKER clear, and with exactly one run-queue
\* entry that no transition_to_notified produced; so the popped task meets
\* transition_to_running idle and notified, and as long as an entry waits in
\* the queue (from spawn on, whatever the join handle does meanwhile) a wake
\* returns DoNothing and leaves the word as it is: no Submit is ever
\* returned while an entry is queued.
SpawnProtocol ==
    /\ /\ ref_count(state) = 2
       /\ is_join_interested(state) /\ is_notified(state)
       /\ ~is_running(state) /\ ~is_complete(state) /\ ~has_join_waker(state)
       /\ queued = 1 /\ obl = 0 /\ wakers = EmptyBag /\ opc = "wait"
    /\ []((queued >= 1 /\ opc = "wait") =>
            /\ is_idle(state) /\ is_notified(state)
            /\ transition_to_notified_action(state) = "DoNothing"
            /\ transition_to_notified_next(state) = state)
    /\ [][(opc = "run_cas" /\ opc' = "poll") =>
            is_idle(state) /\ is_notified(state)]_vars
    /\ [][CopiesIn(Waker("push", 0), wakers') > CopiesIn(Waker("push", 0), wakers)
            => queued = 0]_vars

\* an entry waits in the run queue, the task has not been popped, and a wake
\* that arrived meanwhile was told DoNothing
SpawnProtocolWitness ==
    /\ queued = 1
    /\ opc = "wait"
    /\ is_idle(state) /\ is_notified(state)
    /\ CopiesIn(Waker("dec", 0), wakers) = 1

(***************************************************************************)
(* C23, C24.  The owner's side of an Op: Ready, Drop, and a second poll.  *)
(***************************************************************************)
\* C23: an Op has its data exactly as long as its index is not usize::MAX,
\* and while it has them its slot holds its own lifecycle; the Drop of an Op
\* whose poll returned Ready touches neither the slab nor the queues (no
\* cancel is pushed); the Drop of an Op whose poll never returned Ready takes
\* its slot through the release path (to Ignored, or to Vacant if the result
\* was already stored or is processed by the flush that makes room for the
\* cancel); and an Op is dropped once: a dropped Op never acts
\* again.
OwnerReleaseOnce ==
    /\ [](\A o \in Ops : handle[o].alive \in {"live", "dropped"} =>
            /\ ~handle[o].data => handle[o].index = USIZE_MAX
            /\ (handle[o].alive = "live" /\ handle[o].data) =>
                    /\ handle[o].index \in Slots
                    /\ slab[handle[o].index].st \in {"Submitted", "Waiting", "Completed"}
                    /\ slab[handle[o].index].op = o)
    /\ [][\A o \in Ops :
            /\ (handle[o].alive = "live" /\ handle'[o].alive = "dropped") =>
                  IF ~handle[o].data
                  THEN UNCHANGED <<slab, sq, inflight, cq, fds>>
                  ELSE LET i == handle[o].index IN
                       /\ slab[i].st = "Completed" => slab'[i] = Vacant
                       /\ slab'[i].st \in {"Ignored", "Vacant"}
            /\ handle[o].alive \in {"dropped", "panicked"} =>
                  handle'[o] = handle[o]]_vars

\* one Op was dropped after its poll returned Ready, another was dropped
\* in flight and its slot waits, Ignored, for the completion
OwnerReleaseOnceWitness ==
    \E o, q \in Ops :
        /\ handle[o].alive = "dropped" /\ ~handle[o].data
        /\ handle[q].alive = "dropped" /\ handle[q].data
        /\ slab[handle[q].index].st = "Ignored"

\* C24: a poll of an Op whose data was taken by an earlier Ready panics
\* without touching the driver: slab, queues and descriptors are as before,
\* and no slab lookup with an index outside the slab (usize::MAX) or of a
\* vacant slot is ever made.
DoublePollFatal ==
    /\ [](~ub)
    /\ [][\A o \in Ops :
            (handle[o].alive = "live" /\ ~handle[o].data
                /\ handle'[o] # handle[o] /\ handle'[o].alive # "dropped") =>
                    /\ handle'[o].alive = "panicked"
                    /\ handle'[o].index = USIZE_MAX
                    /\ UNCHANGED <<slab, sq, inflight, cq, fds>>]_vars

\* an Op was polled again after Ready and panicked; the slot it had used is
\* vacant
DoublePollFatalWitness ==
    \E o \in Ops :
        /\ handle[o].alive = "panicked"
        /\ handle[o].index = USIZE_MAX
        /\ \A i \in Slots : slab[i].op # o

(***************************************************************************)
(* C25.  What a tick does with the completion queue.                      *)
(***************************************************************************)
\* the operations a tick over `events` wakes, in the order of the events:
\* those whose slot in `sl` has a waker registered
RECURSIVE WokenBy(_, _)
WokenBy(events, sl) ==
    IF events = <<>> THEN <<>>
    ELSE LET e == Head(events)
             rest == WokenBy(Tail(events), sl)
         IN  IF e.tag \in Slots /\ sl[e.tag].st = "Waiting"
             THEN <<sl[e.tag].op>> \o rest
             ELSE rest

\* C25: a Driver::submit that ticks leaves the completion queue empty; the
\* events are dispatched in the order the kernel posted them (the wakers of
\* the waiting operations are woken in that order); an event with a reserved
\* tag (>= u64::MAX - 3: the timeout and cancel markers) changes no slot, as
\* does the absence of an event: a slot changes only if an event carries its
\* index as tag, and then it receives exactly that event: Ok(res) if the
\* kernel's result is not negative, the error -res if it is, and the flags
\* of the event (or, if its Op was dropped, the slot is released).
CompletionDispatch ==
    [][(lastCall'.call = "submit" /\ (lastCall'.res = "Ok" \/ lastCall'.ticks > 0)) =>
        /\ cq' = <<>>
        /\ woken' = WokenBy(cq, slab)
        /\ \A n \in 1..Len(cq) :
              cq[n].tag >= U64_MAX - 3 => cq[n].tag \notin Slots
        /\ \A i \in Slots :
              LET evs == {n \in 1..Len(cq) : cq[n].tag = i} IN
              IF evs = {} THEN slab'[i] = slab[i]
              ELSE /\ Cardinality(evs) = 1
                   /\ LET e == cq[CHOOSE n \in evs : TRUE] IN
                      CASE slab[i].st \in {"Submitted", "Waiting"} ->
                             /\ slab'[i].st = "Completed"
                             /\ slab'[i].op = slab[i].op
                             /\ slab'[i].is_fd = slab[i].is_fd
                             /\ slab'[i].res = IF e.res >= 0 THEN "Ok" ELSE "Err"
                             /\ slab'[i].val = IF e.res >= 0 THEN e.res ELSE 0 - e.res
                             /\ slab'[i].flags = e.flags
                        [] slab[i].st = "Ignored" -> slab'[i] = Vacant
                        [] OTHER -> FALSE]_vars

\* one Driver::submit ticked the events of two waiting operations: one got
\* Ok(0) with the flags of its event, the other the error ENOENT
CompletionDispatchWitness ==
    /\ lastCall.call = "submit"
    /\ Len(woken) = 2
    /\ \E i, j \in Slots :
          /\ slab[i].st = "Completed" /\ slab[i].res = "Ok"
          /\ slab[i].val = 0 /\ slab[i].flags = 1
          /\ slab[j].st = "Completed" /\ slab[j].res = "Err"
          /\ slab[j].val = 2 /\ slab[j].flags = 0

(***************************************************************************)
(* C26.  The cancel decision of drop_op.                                  *)
(***************************************************************************)
\* the Op of o, which still has its data, is dropped in this step
DropsUnobserved(o) ==
    /\ handle[o].alive = "live"
    /\ handle[o].data
    /\ handle'[o].alive = "dropped"
\* the kernel has not completed operation o: its entry is still in the
\* submission queue or in flight
NotCompletedInKernel(o) ==
    \/ \E k \in inflight : k.op = o
    \/ \E n \in 1..Len(sq) : sq[n].kind = "op" /\ sq[n].op = o

\* C26 as stated: the drop of an Op whose completion was not observed pushes
\* a cancel if and only if the kernel has not yet completed the operation
\* and its type is not cancel-exempt.
CancelIffInKernel ==
    [][\A o \in Ops : DropsUnobserved(o) =>
          (sq' # sq <=> (NotCompletedInKernel(o) /\ handle[o].type # "close"))]_vars

\* C26, amended: the drop of an Op whose completion was not observed pushes
\* an async cancel for its index, tagged u64::MAX, if and only if the driver
\* has not yet processed the operation's completion (the slot is not
\* Completed), the type is not cancel-exempt and the submission queue has
\* room for the request, if necessary after one flush (when that flush
\* fails nothing is pushed and the queue is as it was).  For close no cancel
\* is pushed; for a Completed slot no cancel is pushed, the slot is released
\* in the same step and the stored result is dropped (a descriptor it
\* carries is closed).
CancelDecisionOnDrop ==
    [][\A o \in Ops : DropsUnobserved(o) =>
          LET i == handle[o].index
              cancel == [kind |-> "cancel", tag |-> U64_MAX, target |-> i, op |-> o]
          IN
          /\ sq' # sq =>
                /\ slab[i].st \in {"Submitted", "Waiting"}
                /\ handle[o].type # "close"
                /\ sq' = Append(sq, cancel) \/ (Len(sq) = SqCap /\ sq' = <<cancel>>)
          /\ (slab[i].st \in {"Submitted", "Waiting"} /\ handle[o].type # "close"
                /\ Len(sq) < SqCap) => sq' = Append(sq, cancel)
          /\ handle[o].type = "close" => sq' = sq
          /\ slab[i].st = "Completed" =>
                /\ sq' = sq
                /\ slab'[i] = Vacant
                /\ fds'[o].closed = fds[o].closed
                        + (IF slab[i].res = "Ok" /\ slab[i].is_fd THEN 1 ELSE 0)]_vars

\* an Op was dropped while the event of its operation waited, not yet
\* ticked, in the completion queue: the cancel for its index was pushed
CancelDecisionOnDropWitness ==
    \E o \in Ops :
        /\ handle[o].alive = "dropped" /\ handle[o].data
        /\ EventOf(o)
        /\ slab[handle[o].index].st = "Ignored"
        /\ \E n \in 1..Len(sq) :
              sq[n].kind = "cancel" /\ sq[n].target = handle[o].index

(***************************************************************************)
(* C27.  When the runtime thread blocks.                                  *)
(***************************************************************************)
\* C27: the thread blocks only in the park of block_on, and while it is
\* blocked the run queue is empty, the poll flag of the top-level future is
\* clear and the submission queue is empty: the park call that blocks hands
\* every queued entry to the kernel first (an operation is in flight, a
\* cancel is answered).  After the should_poll loop the thread goes to park
\* exactly when the run queue is empty and to Driver::submit, which does not
\* block, when it is not.
BlockOnlyIdleFlushed ==
    /\ [](parked => rpc = "park" /\ tasks = <<>> /\ ~shouldPoll /\ sq = <<>>)
    /\ [][(~parked /\ parked') =>
            /\ rpc = "park" /\ tasks = <<>> /\ ~shouldPoll
            /\ sq' = <<>>
            /\ \A n \in 1..Len(sq) :
                  sq[n].kind = "op" =>
                      \E k \in inflight' : k.tag = sq[n].tag /\ k.op = sq[n].op
            /\ Len(cq') = Len(cq)
                  + Cardinality({n \in 1..Len(sq) : sq[n].kind = "cancel"})]_vars
    /\ [][(rpc = "check" /\ rpc' \in {"park", "submit"}) =>
            /\ ~shouldPoll
            /\ rpc' = "park" <=> tasks = <<>>]_vars
    /\ [][rpc = "submit" => ~parked']_vars

\* the thread is blocked in park; the park call handed two entries to the
\* kernel, the operation of a suspended task among them
BlockOnlyIdleFlushedWitness ==
    /\ parked
    /\ Cardinality(inflight) = 2
    /\ \E g \in TaskIds : fut[g].op # 0 /\ slab[handle[fut[g].op].index].st = "Waiting"

(***************************************************************************)
(* C28.  The number of runs of a drain pass.                              *)
(***************************************************************************)
\* C28: in a drain pass the number of task runs is at most twice the length
\* the run queue had when the pass began, also when tasks re-queue
\* themselves during the pass.
DrainBound == pass.runs <= 2 * pass.len

(***************************************************************************)
(* C29.  NOTIFIED and the run queue.                                      *)
(***************************************************************************)
\* C29: while the task is idle (neither RUNNING nor COMPLETE), NOTIFIED is
\* set if and only if exactly one run is pending for it: one run-queue
\* entry, or the task just popped and about to call transition_to_running,
\* or one enqueue obligation returned and not yet carried out; an idle task
\* with NOTIFIED clear has no run-queue entry and none of the others.
NotifiedTracksQueue ==
    LET pending == queued + Outstanding + (IF opc = "run_cas" THEN 1 ELSE 0) IN
    is_idle(state) =>
        /\ is_notified(state) <=> pending = 1
        /\ ~is_notified(state) => queued = 0 /\ pending = 0

\* a waker was told Submit and has pushed the task, the runtime thread has
\* popped it and is about to call transition_to_running, and another waker
\* clone is still held
NotifiedTracksQueueWitness ==
    /\ opc = "run_cas"
    /\ is_idle(state) /\ is_notified(state)
    /\ queued = 0 /\ Outstanding = 0
    /\ pendingWake
    /\ CopiesIn(Waker("held", 0), wakers) = 1

(***************************************************************************)
(* C30.  A wake of a complete task.                                       *)
(***************************************************************************)
\* the waker clones that are inside transition_to_notified
Notifying(b) ==
    BagCardinality(b) - CopiesIn(Waker("held", 0), b)
        - CopiesIn(Waker("push", 0), b) - CopiesIn(Waker("dec", 0), b)

\* C30: a transition_to_notified that takes effect on a word with COMPLETE
\* set returns DoNothing (the waker goes on to release its reference, no
\* enqueue obligation is produced, the run queue is as it was) and leaves
\* the word unchanged, with NOTIFIED set or clear, whatever the other wakers
\* do; and a complete task has no run-queue entry and no obligation.
CompletedNeverEnqueued ==
    /\ [](is_complete(state) => queued = 0 /\ Outstanding = 0)
    /\ [][(is_complete(state) /\ Notifying(wakers') < Notifying(wakers)) =>
            /\ state' = state
            /\ CopiesIn(Waker("dec", 0), wakers') = CopiesIn(Waker("dec", 0), wakers) + 1
            /\ CopiesIn(Waker("push", 0), wakers') = 0
            /\ queued' = 0 /\ obl' = obl]_vars

\* the task is complete with NOTIFIED left set by a wake during its last run;
\* that waker was told DoNothing, and a second wake has loaded the complete
\* word and is about to try its compare_exchange
CompletedNeverEnqueuedWitness ==
    /\ is_complete(state) /\ is_notified(state)
    /\ CopiesIn(Waker("dec", 0), wakers) = 1
    /\ CopiesIn(Waker("notify_cas", state), wakers) = 1

LiveSlot(tag, o) ==
    /\ tag \in Slots
    /\ slab[tag].st \in {"Submitted", "Waiting", "Ignored"}
    /\ slab[tag].op = o

\* the operations on their way to a completion: entries of the submission
\* queue, operations in flight and events not yet ticked, as <<tag, op>>
Underway ==
    {<<sq[n].tag, sq[n].op>> : n \in {x \in 1..Len(sq) : sq[x].kind = "op"}}
        \cup {<<k.tag, k.op>> : k \in {x \in inflight : x.tag < MIN_REVERSED_USERDATA}}
        \cup {<<cq[n].tag, cq[n].op>> :
                 n \in {x \in 1..Len(cq) : cq[x].tag < MIN_REVERSED_USERDATA}}

\* the number of places where the tag is on its way
UnderwayCount(tag) ==
    Cardinality({n \in 1..Len(sq) : sq[n].kind = "op" /\ sq[n].tag = tag})
        + Cardinality({k \in inflight : k.tag = tag})
        + Cardinality({n \in 1..Len(cq) : cq[n].tag = tag})

\* C32: every event tick will process with a tag that is not reserved, and
\* every operation that will produce one, names a slot that is allocated to
\* the operation submitted with that tag and has no result yet, and names
\* it once; so no unchecked lookup of Ops::complete finds a vacant slot.  A
\* slot that is freed has had its event processed (nothing with its tag is
\* on its way) and has been released by its Op (observed by a poll, or
\* dropped), and a live Op that was not observed has its slot.
CompletionsReachLiveSlots ==
    /\ [](~ub)
    /\ [](\A u \in Underway : LiveSlot(u[1], u[2]) /\ UnderwayCount(u[1]) = 1)
    /\ [](\A o \in Ops : (handle[o].alive = "live" /\ handle[o].data) =>
              /\ handle[o].index \in Slots
              /\ slab[handle[o].index].st # "Vacant"
              /\ slab[handle[o].index].op = o)
    /\ [][\A i \in Slots : (slab[i].st # "Vacant" /\ slab'[i].st = "Vacant") =>
              /\ UnderwayCount(i)' = 0
              /\ handle'[slab[i].op].alive = "dropped"
                    \/ ~handle'[slab[i].op].data]_vars

\* index 0 is in use a second time: its first operation was dropped in
\* flight and its slot freed by the event that came later; the second
\* operation holds the slot and its event waits for the next tick
CompletionsReachLiveSlotsWitness ==
    \E o, q \in Ops :
        /\ handle[o].alive = "dropped" /\ handle[o].index = 0 /\ handle[o].cancel
        /\ handle[q].alive = "live" /\ handle[q].index = 0
        /\ slab[0].op = q
        /\ \E n \in 1..Len(cq) : cq[n].tag = 0 /\ cq[n].op = q

(***************************************************************************)
(* C33.  The operation an async cancel reaches.                           *)
(***************************************************************************)
\* C33: an operation in flight that a cancel request has reached is the
\* operation of the Op on whose behalf the request was built (the Op that
\* was dropped, or the Op the OpCanceller was made of), never a later
\* operation that was given the same index.
CancelHitsOwnOperation ==
    \A k \in inflight : k.cancelled => k.by = k.op

(***************************************************************************)
(* C34.  The flag bits and the reference count in one word.               *)
(***************************************************************************)
\* a flag transition of the thread that runs the task takes effect
OwnerFlagStep ==
    \/ opc = "run_cas" /\ opc' = "poll"
    \/ opc = "idle_cas" /\ opc' # "idle_cas"
    \/ opc = "poll" /\ opc' = "drop_ref"
\* a transition_to_notified takes effect
WakeFlagStep == Notifying(wakers') < Notifying(wakers)
\* a join-bit transition returns
JoinFlagStep == jpc = "cas" /\ jpc' = "ret" /\ jop \in JoinBitOps
\* a ref_inc or a ref_dec
RefIncStep ==
    \/ opc = "poll" /\ BagCardinality(wakers') > BagCardinality(wakers)
    \/ opc = "resched_inc" /\ opc' = "resched_push"
RefDecStep ==
    \/ opc = "drop_ref" /\ opc' = "wait"
    \/ BagCardinality(wakers') < BagCardinality(wakers) /\ queued' = queued
    \/ jpc = "dec" /\ jpc' = "gone"

\* C34: a flag transition that takes effect leaves the ref count as it is;
\* a ref_inc or ref_dec changes the count by one and leaves the five flag
\* bits as they are; a flag transition whose compare_exchange takes effect
\* after the count moved under it replaces the word it computed from (its
\* local copy is the word at that instant), stores its own change of that
\* word and returns the outcome of that word; and no change of the count
\* is lost: the count is the number of holders throughout.
FlagsAndRefCountIndependent ==
    /\ [](ref_count(state) = Holders)
    /\ [][(OwnerFlagStep \/ WakeFlagStep \/ JoinFlagStep) =>
              ref_count(state') = ref_count(state)]_vars
    /\ [][RefIncStep => /\ flag_bits(state') = flag_bits(state)
                        /\ ref_count(state') = ref_count(state) + 1]_vars
    /\ [][RefDecStep => /\ flag_bits(state') = flag_bits(state)
                        /\ ref_count(state') = ref_count(state) - 1]_vars
    /\ [][(opc = "run_cas" /\ opc' = "poll") =>
              /\ ocurr = state
              /\ state' = ClearBit(SetBit(state, RUNNING), NOTIFIED)]_vars
    /\ [][(opc = "idle_cas" /\ opc' # "idle_cas") =>
              /\ ocurr = state
              /\ state' = ClearBit(state, RUNNING)
              /\ (opc' = "resched_inc") = is_notified(state)
              /\ (opc' = "drop_ref") = ~is_notified(state)]_vars
    /\ [][WakeFlagStep =>
              \E w \in BagToSet(wakers) :
                  /\ w = Waker("notify_cas", state)
                  /\ LET submit == ~is_running(state) /\ ~is_complete(state)
                                       /\ ~is_notified(state)
                     IN  /\ wakers' = WakerStep(w, Waker(IF submit THEN "push"
                                                         ELSE "dec", 0))
                         /\ state' = IF is_running(state) \/ submit
                                     THEN SetBit(state, NOTIFIED) ELSE state]_vars
    /\ [][(JoinFlagStep /\ jres'.kind = "Ok") =>
              /\ jcurr = state
              /\ state' = JoinBitApplied(jop, state)]_vars

\* the thread that runs the task is between the load and the
\* compare_exchange of transition_to_idle, and a waker between those of
\* transition_to_notified, and the count has moved under both: the words
\* they loaded differ from the current one in the count only
FlagsAndRefCountIndependentWitness ==
    /\ opc = "idle_cas"
    /\ ref_count(ocurr) # ref_count(state) /\ flag_bits(ocurr) = flag_bits(state)
    /\ \E w \in BagToSet(wakers) :
          /\ w.pc = "notify_cas"
          /\ ref_count(w.curr) # ref_count(state)
          /\ flag_bits(w.curr) = flag_bits(state)

=============================================================================
